---- MODULE Spec2Model ----
(***************************************************************************)
(* Verification model of the DemoGPTs API layer:                           *)
(*   - the per-IP sliding-window rate limiter (middlewares/ratelimit.js),  *)
(*   - the vendor stream decoders (processStream of the four providers),   *)
(*   - the chat / image request handlers (chat.js, image.js).              *)
(* Each part has its own specification (SpecLimiter, SpecDecoder,          *)
(* SpecHandler); the variables of the other parts stay at their initial    *)
(* value.                                                                  *)
(***************************************************************************)
EXTENDS Integers, Sequences, FiniteSets, TLC

VARIABLES
  now,           \* Date.now(), in milliseconds
  ticks,         \* number of clock advances so far (bounds the run)
  requestStore,  \* ratelimit.js requestStore: Map ip -> array of timestamps
  admitted,      \* per ip, its admitted requests [at, cfg] that are still
                 \* inside the longest window
  rejectedAt,    \* per ip, the instant of its latest rejected request
  served,        \* number of requests admitted so far (bounds the run)
  last,          \* outcome of the last request passed through withRateLimit
  vendor,        \* the provider whose processStream is decoding
  stream,        \* the characters the vendor sends before it closes the stream
  pos,           \* how many of them reader.read() has delivered
  buffer,        \* processStream: the held-back, incomplete last line
  events,        \* the events the generator has yielded
  dstate,        \* "reading" until the generator returns
  cuts,          \* where chunk boundaries fell: inside a prefix, inside a payload
  aborted,       \* the abort signal of the vendor request has fired
  handled,       \* number of handler invocations so far (bounds the run)
  hpc,           \* "idle", "streaming" (awaiting the stream promise), "responded"
  request,       \* what the last invocation was given and which steps it took
  response,      \* what the last invocation returned
  constructed,   \* number of provider adapters constructed so far
  invoked,       \* number of adapter operations (chat, streamChat,
                 \* generateImage) started so far
  chunks,        \* handleStreamingChat: the frames pushed so far
  emitter,       \* the provider stream: "none", "open", "ended"
  promise,       \* the promise of handleStreamingChat
  settled,       \* the value it was resolved or rejected with
  messages,      \* the message list given to formatMessages
  formatter,     \* the provider whose formatMessages was applied, or "none"
  formatted,     \* what it returned
  input,         \* the request data given to validateInput
  validation,    \* what it returned
  adapter,       \* the adapter class whose operation was called, and the
                 \* stream parameter of the call
  externalSignal,\* the signal given to the call: "none", "active", "aborted"
  listening,     \* an abort listener is registered on the external signal
  controller,    \* the AbortController of the call: "none", "live", "aborted"
  timer,         \* its timeout: "none", "armed", "cleared", "fired"
  call,          \* the vendor request: "idle", "pending", "streaming",
                 \* "done", "cancelled"
  processEnv,    \* process.env: the variables that are set
  health,        \* what the health handler returned
  inflight,      \* the requests being handled concurrently: where each is
  running        \* the request whose code is running, or 0

limVars == <<now, ticks, requestStore, admitted, rejectedAt, served, last>>

decVars == <<vendor, stream, pos, buffer, events, dstate, cuts, aborted>>

hanVars == <<handled, hpc, request, response, constructed, invoked,
             chunks, emitter, promise, settled>>

funVars == <<messages, formatter, formatted, input, validation>>

auxVars == <<adapter, externalSignal, listening, controller, timer, call,
             processEnv, health, inflight, running>>

vars == <<now, ticks, requestStore, admitted, rejectedAt, served, last,
          vendor, stream, pos, buffer, events, dstate, cuts, aborted,
          handled, hpc, request, response, constructed, invoked,
          chunks, emitter, promise, settled,
          messages, formatter, formatted, input, validation,
          adapter, externalSignal, listening, controller, timer, call,
          processEnv, health, inflight, running>>

----------------------------------------------------------------------------
(* Bounds *)

MaxTicks == 3
ChatMaxRequests == 2
ImageMaxRequests == 2
MaxServed == 3
MaxLines == 2

----------------------------------------------------------------------------
(* Rate limiter: program constants and configurations *)

IPs == {"ip1", "ip2"}

DefaultWindowMs == 60000
ChatWindowMs == 60000
ImageWindowMs == 300000
MsPerSecond == 1000

\* Clock advances between two requests: half a second, one minute, five minutes
TickSteps == {500, 60000, 300000}

\* Math.min() of no argument; a value above every instant the model reaches
Infinity == 2147483647

ChatConfig == [name |-> "chat", windowMs |-> ChatWindowMs, maxRequests |-> ChatMaxRequests]
ImageConfig == [name |-> "image", windowMs |-> ImageWindowMs, maxRequests |-> ImageMaxRequests]
Configs == {ChatConfig, ImageConfig}

----------------------------------------------------------------------------
(* Helpers on timestamp arrays *)

Never == -1

\* the entries of the admission log that can still fall inside a window
PruneLog(log, t) ==
  SelectSeq(log, LAMBDA e : e.at > t - ImageWindowMs)

RECURSIVE SeqMin(_)
SeqMin(s) ==
  IF Len(s) = 1 THEN s[1]
  ELSE LET m == SeqMin(Tail(s)) IN IF s[1] < m THEN s[1] ELSE m

\* variant: the window bound is inclusive (timestamp >= cutoff)
FilterRecentInclusive(requests, cutoff) ==
  SelectSeq(requests, LAMBDA timestamp : timestamp >= cutoff)

\* requests.filter(timestamp => timestamp > cutoff)
FilterRecent(requests, cutoff) ==
  SelectSeq(requests, LAMBDA timestamp : timestamp > cutoff)

\* requestStore.get(ip) || []
StoreGet(store, ip) ==
  IF ip \in DOMAIN store THEN store[ip] ELSE <<>>

\* requestStore.set(ip, requests)
StoreSet(store, ip, requests) ==
  [k \in (DOMAIN store) \cup {ip} |-> IF k = ip THEN requests ELSE store[k]]

\* Math.max(0, Math.ceil(ms / 1000))
CeilSeconds(ms) ==
  IF ms <= 0 THEN 0 ELSE (ms + MsPerSecond - 1) \div MsPerSecond

----------------------------------------------------------------------------
(* ratelimit.js *)

cleanupOldRequests(store, windowMs, t) ==
  LET cutoff == t - windowMs
      keep == {ip \in DOMAIN store : Len(FilterRecent(store[ip], cutoff)) > 0}
  IN [ip \in keep |-> FilterRecent(store[ip], cutoff)]

\* variant: remaining is not clamped at 0
checkRateLimitUnclamped(store, ip, config, t) ==
  LET cutoff == t - config.windowMs
      recentRequests == FilterRecent(StoreGet(store, ip), cutoff)
      isLimited == Len(recentRequests) >= config.maxRequests
      resetTime == IF Len(recentRequests) = 0 THEN Infinity
                   ELSE SeqMin(recentRequests) + config.windowMs
      retryAfter == IF Len(recentRequests) = 0 THEN Infinity
                    ELSE CeilSeconds(resetTime - t)
  IN [isLimited |-> isLimited,
      current |-> Len(recentRequests),
      limit |-> config.maxRequests,
      remaining |-> config.maxRequests - Len(recentRequests),
      resetTime |-> resetTime,
      retryAfter |-> retryAfter]

\* variant: the limit is reached one request early
checkRateLimitOffByOne(store, ip, config, t) ==
  LET cutoff == t - config.windowMs
      recentRequests == FilterRecent(StoreGet(store, ip), cutoff)
      isLimited == Len(recentRequests) >= config.maxRequests - 1
      resetTime == IF Len(recentRequests) = 0 THEN Infinity
                   ELSE SeqMin(recentRequests) + config.windowMs
      retryAfter == IF Len(recentRequests) = 0 THEN Infinity
                    ELSE CeilSeconds(resetTime - t)
      left == config.maxRequests - Len(recentRequests)
  IN [isLimited |-> isLimited,
      current |-> Len(recentRequests),
      limit |-> config.maxRequests,
      remaining |-> IF left > 0 THEN left ELSE 0,
      resetTime |-> resetTime,
      retryAfter |-> retryAfter]

checkRateLimit(store, ip, config, t) ==
  LET cutoff == t - config.windowMs
      recentRequests == FilterRecent(StoreGet(store, ip), cutoff)
      isLimited == Len(recentRequests) >= config.maxRequests
      resetTime == IF Len(recentRequests) = 0 THEN Infinity
                   ELSE SeqMin(recentRequests) + config.windowMs
      retryAfter == IF Len(recentRequests) = 0 THEN Infinity
                    ELSE CeilSeconds(resetTime - t)
      left == config.maxRequests - Len(recentRequests)
  IN [isLimited |-> isLimited,
      current |-> Len(recentRequests),
      limit |-> config.maxRequests,
      remaining |-> IF left > 0 THEN left ELSE 0,
      resetTime |-> resetTime,
      retryAfter |-> retryAfter]

\* doCleanup is the outcome of Math.random() < 0.1
recordRequest(store, ip, t, doCleanup) ==
  LET stored == StoreSet(store, ip, Append(StoreGet(store, ip), t))
  IN IF doCleanup THEN cleanupOldRequests(stored, DefaultWindowMs, t) ELSE stored

rateLimitResponse(rateInfo) ==
  [statusCode |-> 429,
   XRateLimitLimit |-> rateInfo.limit,
   XRateLimitRemaining |-> rateInfo.remaining,
   XRateLimitReset |-> rateInfo.resetTime,
   RetryAfter |-> rateInfo.retryAfter]

\* value of a header the response does not carry
NoHeader == -1

\* headers added to the response of an admitted request
addRateLimitHeaders(statusCode, rateInfo) ==
  [statusCode |-> statusCode,
   XRateLimitLimit |-> rateInfo.limit,
   XRateLimitRemaining |-> rateInfo.remaining,
   XRateLimitReset |-> rateInfo.resetTime,
   RetryAfter |-> NoHeader]

NoRequest == [ip |-> "none", cfg |-> ChatConfig, at |-> 0, limited |-> FALSE,
              response |-> [statusCode |-> 0]]

\* variant: the rejected request is recorded as well
RequestLimitedRecorded(ip, config) ==
  LET rateInfo == checkRateLimit(requestStore, ip, config, now) IN
  /\ rateInfo.isLimited
  /\ last' = [ip |-> ip, cfg |-> config, at |-> now, limited |-> TRUE,
              response |-> rateLimitResponse(rateInfo)]
  /\ rejectedAt' = [rejectedAt EXCEPT ![ip] = now]
  /\ requestStore' = recordRequest(requestStore, ip, now, FALSE)
  /\ UNCHANGED <<now, ticks, admitted, served>>
  /\ UNCHANGED decVars
  /\ UNCHANGED hanVars
  /\ UNCHANGED funVars
  /\ UNCHANGED auxVars

\* withRateLimit: the request of ip is checked, and rejected ...
RequestLimited(ip, config) ==
  LET rateInfo == checkRateLimit(requestStore, ip, config, now) IN
  /\ rateInfo.isLimited
  /\ last' = [ip |-> ip, cfg |-> config, at |-> now, limited |-> TRUE,
              response |-> rateLimitResponse(rateInfo)]
  /\ rejectedAt' = [rejectedAt EXCEPT ![ip] = now]
  /\ UNCHANGED <<now, ticks, requestStore, admitted, served>>
  /\ UNCHANGED decVars
  /\ UNCHANGED hanVars
  /\ UNCHANGED funVars
  /\ UNCHANGED auxVars

\* ... or recorded and passed to the wrapped handler
RequestAdmitted(ip, config, doCleanup) ==
  LET rateInfo == checkRateLimit(requestStore, ip, config, now) IN
  /\ ~rateInfo.isLimited
  /\ served < MaxServed
  /\ served' = served + 1
  /\ requestStore' = recordRequest(requestStore, ip, now, doCleanup)
  /\ admitted' = [admitted EXCEPT ![ip] = Append(@, [at |-> now, cfg |-> config.name])]
  /\ last' = [ip |-> ip, cfg |-> config, at |-> now, limited |-> FALSE,
              response |-> addRateLimitHeaders(200,
                  [rateInfo EXCEPT !.remaining = rateInfo.remaining - 1])]
  /\ UNCHANGED <<now, ticks, rejectedAt>>
  /\ UNCHANGED decVars
  /\ UNCHANGED hanVars
  /\ UNCHANGED funVars
  /\ UNCHANGED auxVars

Tick(step) ==
  /\ ticks < MaxTicks
  /\ now' = now + step
  /\ ticks' = ticks + 1
  /\ admitted' = [ip \in IPs |-> PruneLog(admitted[ip], now')]
  /\ last' = NoRequest
  /\ UNCHANGED <<requestStore, rejectedAt, served>>
  /\ UNCHANGED decVars
  /\ UNCHANGED hanVars
  /\ UNCHANGED funVars
  /\ UNCHANGED auxVars

\* a request without temperature; temperatures are in tenths (0.7 is 7)
NoTemperature == -1

\* no handler invocation yet
NoInvocation == [endpoint |-> "none", ip |-> "none", provider |-> "none",
                 jsonOk |-> FALSE, stream |-> "omitted",
                 temperature |-> NoTemperature, passed |-> NoTemperature,
                 schemaValid |-> FALSE, overQuota |-> FALSE,
                 limiterReached |-> FALSE, validated |-> FALSE,
                 streamed |-> FALSE, vendorKnown |-> FALSE,
                 env |-> [hasKey |-> TRUE, isConfigured |-> TRUE,
                          supportsImageGeneration |-> TRUE, vendorOk |-> TRUE,
                          vendorError |-> "", reply |-> "4"],
                 built |-> 0, ops |-> 0]

\* a field that is not set
Undefined == "undefined"

NoResponse == [statusCode |-> 0, kind |-> "none", contentType |-> "none",
               body |-> <<>>, error |-> "", headers |-> {},
               success |-> Undefined, provider |-> Undefined,
               text |-> Undefined]

IdleHandler ==
  /\ handled = 0
  /\ hpc = "idle"
  /\ request = NoInvocation
  /\ response = NoResponse
  /\ constructed = 0
  /\ invoked = 0
  /\ chunks = <<>>
  /\ emitter = "none"
  /\ promise = "none"
  /\ settled = NoResponse

IdleCancellation ==
  /\ adapter = [class |-> "none", stream |-> FALSE]
  /\ externalSignal = "none"
  /\ listening = FALSE
  /\ controller = "none"
  /\ timer = "none"
  /\ call = "idle"

IdleHealth ==
  /\ processEnv = {}
  /\ health = [statusCode |-> 0, status |-> "none", reported |-> FALSE,
               providers |-> [openai |-> FALSE, gemini |-> FALSE,
                              anthropic |-> FALSE, azure |-> FALSE]]

IdleConcurrent ==
  /\ inflight = <<>>
  /\ running = 0

IdleAux == IdleCancellation /\ IdleHealth /\ IdleConcurrent

IdleFunctions ==
  /\ IdleAux
  /\ messages = <<>>
  /\ formatter = "none"
  /\ formatted = <<>>
  /\ input = <<>>
  /\ validation = <<>>

InitLimiter ==
  /\ now = 0
  /\ ticks = 0
  /\ requestStore = <<>>
  /\ admitted = [ip \in IPs |-> <<>>]
  /\ rejectedAt = [ip \in IPs |-> Never]
  /\ served = 0
  /\ last = NoRequest
  /\ vendor = "none"
  /\ stream = <<>>
  /\ pos = 0
  /\ buffer = <<>>
  /\ events = <<>>
  /\ dstate = "idle"
  /\ cuts = {}
  /\ aborted = FALSE
  /\ IdleHandler
  /\ IdleFunctions

NextLimiter ==
  \/ \E ip \in IPs, config \in Configs : RequestLimited(ip, config)
  \/ \E ip \in IPs, config \in Configs, doCleanup \in BOOLEAN :
        RequestAdmitted(ip, config, doCleanup)
  \/ \E step \in TickSteps : Tick(step)

SpecLimiter == InitLimiter /\ [][NextLimiter]_vars

----------------------------------------------------------------------------
(* Vendor stream decoders: processStream of the four providers.            *)
(* A vendor byte stream is a sequence of characters.  The characters that  *)
(* matter to the decoders are kept apart: "LF" (\n), "CR" (\r), the two    *)
(* halves "da" and "ta: " of the `data: ` prefix, the token "[DONE]", and  *)
(* the JSON payload "{" body "}" whose body stands for the fields the      *)
(* decoder of the vendor reads:                                            *)
(*   "a", "b"  a chunk carrying the text a / b                             *)
(*   "n"       a chunk without text (empty delta, content_block_stop)      *)
(*   "f"       the end marker without text (message_stop, finishReason)    *)
(*   "af"      Gemini: text a together with finishReason                   *)
(*   "e"       an error object ({"type":"error",...}, {"error":...})       *)
(***************************************************************************)

Vendors == {"openai", "azure", "anthropic", "gemini"}

Bodies == {"a", "b", "n", "f", "af", "e"}

Whitespace == {"CR", " "}

DataLine(body) == <<"da", "ta: ", "{", body, "}">>
DoneLine == <<"da", "ta: ", "[DONE]">>
JsonLine(body) == <<"{", body, "}">>
TruncatedDataLine == <<"da", "ta: ", "{", "a">>
TruncatedJsonLine == <<"{", "a">>
BlankLine == <<>>

\* the lines a vendor's wire format is made of
VendorLines(v) ==
  IF v \in {"openai", "azure"} THEN
    {DataLine("a"), DataLine("b"), DataLine("n"), DataLine("e"),
     DoneLine, TruncatedDataLine, BlankLine}
  ELSE IF v = "anthropic" THEN
    {DataLine("a"), DataLine("b"), DataLine("n"), DataLine("f"), DataLine("e"),
     DoneLine, TruncatedDataLine, BlankLine}
  ELSE
    {JsonLine("a"), JsonLine("b"), JsonLine("af"), JsonLine("f"), JsonLine("n"),
     JsonLine("e"), TruncatedJsonLine, BlankLine}

ContentEvent(delta) == [type |-> "content", delta |-> delta]
DoneEvent == [type |-> "done", delta |-> ""]
ErrorEvent == [type |-> "error", delta |-> ""]

IsTerminal(e) == e.type \in {"done", "error"}

\* buffer.split('\n')
RECURSIVE SplitLines(_)
SplitLines(s) ==
  IF \E i \in 1..Len(s) : s[i] = "LF"
  THEN LET i == CHOOSE j \in 1..Len(s) :
                  s[j] = "LF" /\ \A k \in 1..(j - 1) : s[k] # "LF"
       IN <<SubSeq(s, 1, i - 1)>> \o SplitLines(SubSeq(s, i + 1, Len(s)))
  ELSE <<s>>

\* String.prototype.trim
RECURSIVE Trim(_)
Trim(s) ==
  IF s = <<>> THEN s
  ELSE IF s[1] \in Whitespace THEN Trim(Tail(s))
  ELSE IF s[Len(s)] \in Whitespace THEN Trim(SubSeq(s, 1, Len(s) - 1))
  ELSE s

\* line.startsWith('data: ')
StartsWithData(line) ==
  Len(line) >= 2 /\ line[1] = "da" /\ line[2] = "ta: "

\* line.slice(6)
SliceData(line) == SubSeq(line, 3, Len(line))

\* variant: a truncated object is parsed as if it were whole
JsonParseLenient(data) ==
  IF Len(data) >= 2 /\ data[1] = "{" /\ data[2] \in Bodies
  THEN [ok |-> TRUE, body |-> data[2]]
  ELSE [ok |-> FALSE, body |-> ""]

\* JSON.parse(data): succeeds on a whole object only
JsonParse(data) ==
  IF Len(data) = 3 /\ data[1] = "{" /\ data[3] = "}" /\ data[2] \in Bodies
  THEN [ok |-> TRUE, body |-> data[2]]
  ELSE [ok |-> FALSE, body |-> ""]

NoEvents == [events |-> <<>>, stop |-> FALSE]

\* variant: only the text a is read, a chunk carrying b is taken as empty
OpenAIDeltaFirstOnly(body) == IF body = "a" THEN body ELSE ""

\* parsed.choices[0]?.delta?.content
OpenAIDelta(body) == IF body \in {"a", "b"} THEN body ELSE ""

\* OpenAIProvider.processStream and AzureChatProvider.processStream, one line
ProcessLineOpenAI(line) ==
  IF StartsWithData(line) THEN
    LET data == Trim(SliceData(line)) IN
    IF data = <<"[DONE]">> THEN [events |-> <<DoneEvent>>, stop |-> TRUE]
    ELSE LET parsed == JsonParse(data) IN
         IF parsed.ok /\ OpenAIDelta(parsed.body) # ""
         THEN [events |-> <<ContentEvent(OpenAIDelta(parsed.body))>>, stop |-> FALSE]
         ELSE NoEvents
  ELSE NoEvents

\* parsed.type
AnthropicType(body) ==
  IF body \in {"a", "b", "af"} THEN "content_block_delta"
  ELSE IF body = "n" THEN "content_block_stop"
  ELSE IF body = "f" THEN "message_stop"
  ELSE "error"

\* parsed.delta?.text
AnthropicText(body) == IF body \in {"a", "b"} THEN body ELSE IF body = "af" THEN "a" ELSE ""

\* AnthropicProvider.processStream, one line.  The Error thrown for type
\* `error` is thrown inside the try block that guards JSON.parse, so the
\* catch clause of that block swallows it and the loop continues.
ProcessLineAnthropic(line) ==
  IF StartsWithData(line) THEN
    LET data == Trim(SliceData(line)) IN
    IF data = <<"[DONE]">> THEN [events |-> <<DoneEvent>>, stop |-> TRUE]
    ELSE LET parsed == JsonParse(data) IN
         IF ~parsed.ok THEN NoEvents
         ELSE IF AnthropicType(parsed.body) = "content_block_delta" THEN
           IF AnthropicText(parsed.body) # ""
           THEN [events |-> <<ContentEvent(AnthropicText(parsed.body))>>, stop |-> FALSE]
           ELSE NoEvents
         ELSE IF AnthropicType(parsed.body) = "message_stop" THEN
           [events |-> <<DoneEvent>>, stop |-> TRUE]
         ELSE NoEvents
  ELSE NoEvents

\* candidate?.content?.parts?.[0]?.text
GeminiText(body) == IF body \in {"a", "b"} THEN body ELSE IF body = "af" THEN "a" ELSE ""

\* candidate?.finishReason
GeminiFinish(body) == body \in {"f", "af"}

\* GeminiProvider.processStream, one line
ProcessLineGemini(line) ==
  LET trimmed == Trim(line) IN
  IF trimmed = <<>> THEN NoEvents
  ELSE LET parsed == JsonParse(trimmed) IN
       IF ~parsed.ok THEN NoEvents
       ELSE [events |-> (IF GeminiText(parsed.body) # ""
                         THEN <<ContentEvent(GeminiText(parsed.body))>> ELSE <<>>)
                        \o (IF GeminiFinish(parsed.body) THEN <<DoneEvent>> ELSE <<>>),
             stop |-> GeminiFinish(parsed.body)]

ProcessLine(v, line) ==
  IF v \in {"openai", "azure"} THEN ProcessLineOpenAI(line)
  ELSE IF v = "anthropic" THEN ProcessLineAnthropic(line)
  ELSE ProcessLineGemini(line)

\* variant: the terminal event is yielded but the generator does not return
RECURSIVE ProcessLinesNoReturn(_, _)
ProcessLinesNoReturn(v, lines) ==
  IF lines = <<>> THEN [events |-> <<>>, returned |-> FALSE]
  ELSE LET r == ProcessLine(v, Head(lines))
           rest == ProcessLinesNoReturn(v, Tail(lines))
       IN [events |-> r.events \o rest.events, returned |-> FALSE]

\* for (const line of lines) { ... }: the events of the complete lines of one
\* chunk, up to the line on which the generator returns
RECURSIVE ProcessLines(_, _)
ProcessLines(v, lines) ==
  IF lines = <<>> THEN [events |-> <<>>, returned |-> FALSE]
  ELSE LET r == ProcessLine(v, Head(lines)) IN
       IF r.stop THEN [events |-> r.events, returned |-> TRUE]
       ELSE LET rest == ProcessLines(v, Tail(lines))
            IN [events |-> r.events \o rest.events, returned |-> rest.returned]

\* variant: every chunk is split and parsed on its own, nothing is held back
ReadChunkNoHoldBack(v, buf, chunk) ==
  LET r == ProcessLines(v, SplitLines(chunk))
  IN [buffer |-> <<>>, events |-> r.events, returned |-> r.returned]

\* one iteration of the read loop: buffer += chunk; lines = buffer.split('\n');
\* buffer = lines.pop() || ''; then the lines are processed
ReadChunk(v, buf, chunk) ==
  LET lines == SplitLines(buf \o chunk)
      r == ProcessLines(v, SubSeq(lines, 1, Len(lines) - 1))
  IN [buffer |-> lines[Len(lines)], events |-> r.events, returned |-> r.returned]

\* if (done) ...: Gemini yields { done: true }; the other decoders break
EndOfStream(v) ==
  IF v = "gemini" THEN <<DoneEvent>> ELSE <<>>

\* the events of a stream delivered as one single chunk
DecodeWhole(v, s) ==
  LET r == ReadChunk(v, <<>>, s)
  IN r.events \o (IF r.returned THEN <<>> ELSE EndOfStream(v))

\* the lines of a stream, each ended by eol, the last one only if terminated
RECURSIVE JoinLines(_, _, _)
JoinLines(lines, eol, terminated) ==
  IF lines = <<>> THEN <<>>
  ELSE IF Len(lines) = 1 THEN Head(lines) \o (IF terminated THEN eol ELSE <<>>)
  ELSE Head(lines) \o eol \o JoinLines(Tail(lines), eol, terminated)

EndsOfLine == {<<"LF">>, <<"CR", "LF">>}

VendorStreams(v) ==
  {JoinLines(lines, eol, terminated) :
     lines \in UNION {[1..n -> VendorLines(v)] : n \in 0..MaxLines},
     eol \in EndsOfLine, terminated \in BOOLEAN}

\* where a chunk boundary falls when the chunk ends with character c
CutKind(c) ==
  IF c = "da" THEN {"prefix"}
  ELSE IF c \in {"{"} \cup Bodies THEN {"json"}
  ELSE {}

\* const { done, value } = await reader.read() with a chunk of n characters
Read(n) ==
  /\ dstate = "reading"
  /\ LET r == ReadChunk(vendor, buffer, SubSeq(stream, pos + 1, pos + n)) IN
     /\ buffer' = r.buffer
     /\ events' = events \o r.events
     /\ dstate' = IF r.returned THEN "returned" ELSE "reading"
  /\ pos' = pos + n
  /\ cuts' = IF pos + n < Len(stream) THEN cuts \cup CutKind(stream[pos + n]) ELSE cuts
  /\ UNCHANGED <<vendor, stream, aborted>>
  /\ UNCHANGED limVars
  /\ UNCHANGED hanVars
  /\ UNCHANGED funVars
  /\ UNCHANGED auxVars

\* variant: at the end of the stream the rest of the buffer is decoded as a
\* last line
EndReadFlush ==
  /\ dstate = "reading"
  /\ pos = Len(stream)
  /\ LET r == ProcessLines(vendor, <<buffer>>) IN
       events' = events \o r.events
                   \o (IF r.returned THEN <<>> ELSE EndOfStream(vendor))
  /\ dstate' = "returned"
  /\ UNCHANGED <<vendor, stream, pos, buffer, cuts, aborted>>
  /\ UNCHANGED limVars
  /\ UNCHANGED hanVars
  /\ UNCHANGED funVars
  /\ UNCHANGED auxVars

\* reader.read() reports done: the vendor closed the stream
EndRead ==
  /\ dstate = "reading"
  /\ pos = Len(stream)
  /\ events' = events \o EndOfStream(vendor)
  /\ dstate' = "returned"
  /\ UNCHANGED <<vendor, stream, pos, buffer, cuts, aborted>>
  /\ UNCHANGED limVars
  /\ UNCHANGED hanVars
  /\ UNCHANGED funVars
  /\ UNCHANGED auxVars

\* the timeout or the caller aborts the vendor request while the generator
\* awaits reader.read(): the read rejects, no clause of processStream catches
\* it, the finally clause releases the reader and the generator ends by
\* raising the rejection
Abort ==
  /\ dstate = "reading"
  /\ aborted' = TRUE
  /\ dstate' = "thrown"
  /\ UNCHANGED <<vendor, stream, pos, buffer, events, cuts>>
  /\ UNCHANGED limVars
  /\ UNCHANGED hanVars
  /\ UNCHANGED funVars
  /\ UNCHANGED auxVars

IdleLimiter ==
  /\ now = 0
  /\ ticks = 0
  /\ requestStore = <<>>
  /\ admitted = [ip \in IPs |-> <<>>]
  /\ rejectedAt = [ip \in IPs |-> Never]
  /\ served = 0
  /\ last = NoRequest

InitDecoder ==
  /\ vendor \in Vendors
  /\ stream \in VendorStreams(vendor)
  /\ pos = 0
  /\ buffer = <<>>
  /\ events = <<>>
  /\ dstate = "reading"
  /\ cuts = {}
  /\ aborted = FALSE
  /\ IdleLimiter
  /\ IdleHandler
  /\ IdleFunctions

NextDecoder ==
  \/ \E n \in 1..(Len(stream) - pos) : Read(n)
  \/ EndRead
  \/ Abort

SpecDecoder == InitDecoder /\ [][NextDecoder]_vars


----------------------------------------------------------------------------
(* Request handlers: chat.js, and image.js which holds the image handler   *)
(* and a second version of the chat handler.  A request body is described  *)
(* by what the handler looks at: whether it parses as JSON, its provider   *)
(* field, whether its other required fields (model and messages for chat,  *)
(* prompt for image) are present and well-formed, and its streaming flag.  *)
(* streaming is what the handler's `streaming = false` yields: TRUE only   *)
(* for a body with streaming: true.  stream is the field of that name in   *)
(* the body ("omitted" when it has none), temperature and                  *)
(* optionsTemperature are its temperature and options.temperature.         *)
(* The environment of an invocation says whether the credentials of the    *)
(* provider exist, what isConfigured() and supportsImageGeneration()       *)
(* answer, and whether the vendor call succeeds; the environments are the  *)
(* ones where everything is in order and the ones where exactly one of     *)
(* these is not.                                                           *)
(***************************************************************************)

MaxRequests == 3
MaxFrames == 3

Endpoints == {"chat", "chat2", "image"}

ChatProviders == {"openai", "gemini", "anthropic", "azure"}

ImageProviders == {"openai", "dalle", "azure", "azure-dalle"}

\* the provider names the factory of an endpoint has a case for
FactoryProviders(endpoint) ==
  IF endpoint = "image" THEN ImageProviders ELSE ChatProviders

\* provider fields of the requests: accepted by both factories, by the chat
\* factory only, by the image factory only, by neither
ProviderInputs == {"openai", "anthropic", "dalle", "other"}

\* a body without the other required fields
MissingFields == [jsonOk |-> TRUE, provider |-> "openai", required |-> "missing",
                  streaming |-> FALSE, stream |-> "omitted",
                  temperature |-> NoTemperature, optionsTemperature |-> NoTemperature]

RequestData == [jsonOk : {TRUE},
                provider : ProviderInputs,
                required : {"present"},
                streaming : BOOLEAN,
                stream : {"omitted"},
                temperature : {NoTemperature},
                optionsTemperature : {NoTemperature}] \cup {MissingFields}

\* a body that JSON.parse rejects
Unparseable == [jsonOk |-> FALSE, provider |-> "other", required |-> "missing",
                streaming |-> FALSE, stream |-> "omitted",
                temperature |-> NoTemperature, optionsTemperature |-> NoTemperature]

\* the messages of the errors a vendor call fails with, and the phrases the
\* image handler looks for in them
VendorMessages == {"insufficient quota", "billing limit, content policy",
                   "safety system, rate limit", "rate limit, unauthorized",
                   "authentication failed", "service unavailable"}

Phrases(message) ==
  IF message = "insufficient quota" THEN {"quota"}
  ELSE IF message = "billing limit, content policy" THEN {"billing", "content policy"}
  ELSE IF message = "safety system, rate limit" THEN {"safety", "rate limit"}
  ELSE IF message = "rate limit, unauthorized" THEN {"rate limit", "unauthorized"}
  ELSE IF message = "authentication failed" THEN {"authentication"}
  ELSE {}

\* error.message.includes(phrase)
Includes(message, phrase) == phrase \in Phrases(message)

\* vendorError is the message of the error a failing vendor call throws,
\* reply the text of the answer of a successful one
Environment(hasKey, isConfigured, supportsImageGeneration, vendorOk) ==
  [hasKey |-> hasKey, isConfigured |-> isConfigured,
   supportsImageGeneration |-> supportsImageGeneration, vendorOk |-> vendorOk,
   vendorError |-> "", reply |-> "4"]

VendorFailure(message) ==
  [Environment(TRUE, TRUE, TRUE, FALSE) EXCEPT !.vendorError = message]

\* the vendor answers with an empty text
EmptyReply == [Environment(TRUE, TRUE, TRUE, TRUE) EXCEPT !.reply = ""]

Environments == {Environment(TRUE, TRUE, TRUE, TRUE),
                 Environment(FALSE, TRUE, TRUE, TRUE),
                 Environment(TRUE, FALSE, TRUE, TRUE),
                 Environment(TRUE, TRUE, FALSE, TRUE),
                 EmptyReply,
                 VendorFailure("service unavailable")}

\* the messages of the errors an open provider stream reports
StreamMessages == {"service unavailable", "insufficient quota"}

\* the environments where the vendor call fails, one for each message
VendorFailures == {VendorFailure(message) : message \in VendorMessages}

\* the requests that pass the schema of a chat or of an image request
WellFormedRequests == {data \in RequestData : data.required = "present"}

\* the client whose requests the handlers are given
Clients == {"ip1"}

EndpointConfig(endpoint) == IF endpoint = "image" THEN ImageConfig ELSE ChatConfig

\* the error field of the JSON bodies the handlers build themselves
ErrorText(kind) ==
  IF kind = "json" THEN "JSON invalido en el cuerpo de la solicitud"
  ELSE IF kind = "validation" THEN "Datos de solicitud invalidos"
  ELSE IF kind = "provider" THEN "Proveedor no soportado"
  ELSE IF kind = "unconfigured" THEN "El proveedor no esta configurado correctamente"
  ELSE IF kind = "capability" THEN "El proveedor no soporta generacion de imagenes"
  ELSE IF kind = "rateLimit" THEN "rate_limit_exceeded"
  ELSE IF kind = "internal" THEN "Error interno del servidor"
  ELSE ""

\* a response with a JSON body: its error field, the rate limit headers it
\* carries, and its success, provider and response fields
JsonResponse(statusCode, kind) ==
  [statusCode |-> statusCode, kind |-> kind,
   contentType |-> "application/json", body |-> <<>>,
   error |-> ErrorText(kind), headers |-> {},
   success |-> Undefined, provider |-> Undefined, text |-> Undefined]

\* a response whose body is a sequence of frames; error is the error field
\* of its error frame
SseResponse(statusCode, frames) ==
  [statusCode |-> statusCode, kind |-> "stream",
   contentType |-> "text/event-stream", body |-> frames,
   error |-> "", headers |-> {},
   success |-> Undefined, provider |-> Undefined, text |-> Undefined]

\* the handler throws instead of returning a response
Thrown == [statusCode |-> 0, kind |-> "thrown", contentType |-> "none",
           body |-> <<>>, error |-> "", headers |-> {},
           success |-> Undefined, provider |-> Undefined, text |-> Undefined]

\* the names of the rate limit headers of a response of ratelimit.js
HeaderNames(resp) ==
  {h \in {"XRateLimitLimit", "XRateLimitRemaining", "XRateLimitReset", "RetryAfter"} :
     resp[h] # NoHeader}

\* the response rateLimit(event, config) hands to the handler
RateLimited(rateInfo) ==
  [JsonResponse(rateLimitResponse(rateInfo).statusCode, "rateLimit")
     EXCEPT !.headers = HeaderNames(rateLimitResponse(rateInfo))]

\* validateInput(data, 'chat')
validateChatRequest(data) ==
  /\ data.provider \in ChatProviders
  /\ data.required = "present"

\* validateInput(data, 'image'): the image schema has no provider field
validateImageRequest(data) == data.required = "present"

validateRequest(endpoint, data) ==
  IF endpoint = "image" THEN validateImageRequest(data)
  ELSE validateChatRequest(data)

\* TRUE when the factory returns an adapter, FALSE when it throws (unknown
\* provider, or a constructor that finds no credentials)
createProvider(providerType, env) ==
  /\ providerType \in ChatProviders
  /\ env.hasKey

\* variant: an unknown name falls back to a default adapter
createImageProviderAnyName(providerType, env) ==
  env.hasKey

createImageProvider(providerType, env) ==
  /\ providerType \in ImageProviders
  /\ env.hasKey

\* what an invocation did: its response (when it does not wait for a
\* stream), and the steps it went through
Outcome(resp, recorded, validated, c, i, streamed, pending) ==
  [response |-> resp, limiterReached |-> TRUE, recorded |-> recorded,
   validated |-> validated, constructed |-> c, invoked |-> i,
   streamed |-> streamed, pending |-> pending]

\* provider.name: no adapter class defines a name
AdapterName == Undefined

\* a || b
Or(a, b) == IF a = "" \/ a = Undefined THEN b ELSE a

\* chat.js handleNormalChat, image.js handleNormalChat
handleNormalChat(env) ==
  IF env.vendorOk
  THEN [JsonResponse(200, "ok") EXCEPT !.success = "true",
                                       !.provider = AdapterName,
                                       !.text = Or(env.reply, Undefined)]
  ELSE [JsonResponse(500, "vendor") EXCEPT !.success = "false",
                                           !.error = env.vendorError,
                                           !.provider = AdapterName]

\* image.js handleStreamingChat: one call of provider.chat, sent as frames
handleStreamingChat2(env) ==
  IF env.vendorOk THEN SseResponse(200, <<"content", "done">>)
  ELSE [SseResponse(500, <<"error">>) EXCEPT !.error = env.vendorError]

\* image.js, catch clause of the handler: the status chosen from the message
ImageErrorStatus(message) ==
  IF Includes(message, "quota") \/ Includes(message, "billing") THEN 402
  ELSE IF Includes(message, "content policy") \/ Includes(message, "safety") THEN 400
  ELSE IF Includes(message, "rate limit") THEN 429
  ELSE IF Includes(message, "unauthorized") \/ Includes(message, "authentication") THEN 401
  ELSE 500

ImageErrorMessage(message) ==
  IF Includes(message, "quota") \/ Includes(message, "billing")
  THEN "Cuota o facturacion agotada para este proveedor"
  ELSE IF Includes(message, "content policy") \/ Includes(message, "safety")
  THEN "El prompt viola las politicas de contenido"
  ELSE IF Includes(message, "rate limit")
  THEN "Limite de velocidad del proveedor alcanzado"
  ELSE IF Includes(message, "unauthorized") \/ Includes(message, "authentication")
  THEN "Error de autenticacion con el proveedor"
  ELSE "Error interno del servidor"

\* requestData is declared with let inside the try block of the handler:
\* the catch clause, which reads requestData?.provider, is outside its scope
RequestDataInScope == FALSE

\* the catch clause of the image handler: the response it builds, unless
\* reading requestData throws a ReferenceError
ImageCatch(message) ==
  IF RequestDataInScope
  THEN [JsonResponse(ImageErrorStatus(message), "vendor")
          EXCEPT !.success = "false", !.error = ImageErrorMessage(message)]
  ELSE Thrown

\* image.js: generateImage and the response built from its result
generateImage(env) ==
  IF env.vendorOk
  THEN [JsonResponse(200, "ok") EXCEPT !.success = "true"]
  ELSE ImageCatch(env.vendorError)

DefaultTemperature == 7

\* a value that `value && ...` and `value || ...` take as true
Truthy(value) == value # NoTemperature /\ value # 0

\* the temperature of the options the handler hands on.  chat.js hands on
\* the options of the body; image.js builds finalOptions =
\* { ...options, ...(temperature && { temperature }) }
OptionsTemperature(endpoint, data) ==
  IF endpoint = "chat2" /\ Truthy(data.temperature) THEN data.temperature
  ELSE data.optionsTemperature

\* the temperature of the vendor call:
\* { temperature: options.temperature || 0.7, ..., ...options }
CallTemperature(endpoint, data) ==
  IF OptionsTemperature(endpoint, data) # NoTemperature
  THEN OptionsTemperature(endpoint, data)
  ELSE DefaultTemperature

\* the handler from createProvider on
Dispatch(endpoint, data, env) ==
  IF endpoint = "image"
  THEN IF ~createImageProvider(data.provider, env)
       THEN Outcome(JsonResponse(400, "provider"), TRUE, TRUE, 0, 0, FALSE, FALSE)
       ELSE IF ~env.isConfigured
       THEN Outcome(JsonResponse(503, "unconfigured"), TRUE, TRUE, 1, 0, FALSE, FALSE)
       ELSE IF ~env.supportsImageGeneration
       THEN Outcome(JsonResponse(400, "capability"), TRUE, TRUE, 1, 0, FALSE, FALSE)
       ELSE Outcome(generateImage(env), TRUE, TRUE, 1, 1, FALSE, FALSE)
  ELSE IF ~createProvider(data.provider, env)
       THEN Outcome(JsonResponse(400, "provider"), TRUE, TRUE, 0, 0, FALSE, FALSE)
       ELSE IF ~env.isConfigured
       THEN Outcome(JsonResponse(503, "unconfigured"), TRUE, TRUE, 1, 0, FALSE, FALSE)
       ELSE IF ~data.streaming
       THEN Outcome(handleNormalChat(env), TRUE, TRUE, 1, 1, FALSE, FALSE)
       ELSE IF endpoint = "chat2"
       THEN Outcome(handleStreamingChat2(env), TRUE, TRUE, 1, 1, TRUE, FALSE)
       ELSE IF env.vendorOk
       THEN Outcome(NoResponse, TRUE, TRUE, 1, 1, TRUE, TRUE)
       \* streamChat throws: the promise is rejected, the handler's catch
       \* clause answers
       ELSE Outcome(JsonResponse(500, "internal"), TRUE, TRUE, 1, 1, TRUE, FALSE)

\* variant: the adapter is constructed before the request is validated
ParseAndValidateAfterCreate(endpoint, data, env) ==
  IF ~data.jsonOk
  THEN Outcome(JsonResponse(400, "json"), TRUE, FALSE, 0, 0, FALSE, FALSE)
  ELSE LET d == Dispatch(endpoint, data, env) IN
       IF ~validateRequest(endpoint, data)
       THEN Outcome(JsonResponse(400, "validation"), TRUE, TRUE,
                    d.constructed, 0, FALSE, FALSE)
       ELSE d

\* the handler from JSON.parse on
ParseAndValidate(endpoint, data, env) ==
  IF ~data.jsonOk
  THEN Outcome(JsonResponse(400, "json"), TRUE, FALSE, 0, 0, FALSE, FALSE)
  ELSE IF ~validateRequest(endpoint, data)
  THEN Outcome(JsonResponse(400, "validation"), TRUE, TRUE, 0, 0, FALSE, FALSE)
  ELSE Dispatch(endpoint, data, env)

\* variant: the request is validated before the rate limiter is consulted
handlerValidateFirst(endpoint, rateInfo, data, env) ==
  IF ~data.jsonOk \/ ~validateRequest(endpoint, data)
  THEN [ParseAndValidate(endpoint, data, env)
          EXCEPT !.limiterReached = FALSE, !.recorded = FALSE]
  ELSE IF rateInfo.isLimited
  THEN Outcome(RateLimited(rateInfo), FALSE, TRUE, 0, 0, FALSE, FALSE)
  ELSE ParseAndValidate(endpoint, data, env)

\* exports.handler of a POST request, from the rate limit check on
handler(endpoint, rateInfo, data, env) ==
  IF rateInfo.isLimited
  THEN Outcome(RateLimited(rateInfo), FALSE, FALSE, 0, 0, FALSE, FALSE)
  ELSE ParseAndValidate(endpoint, data, env)

\* one invocation of a handler, up to its response or to the point where it
\* awaits the promise of handleStreamingChat
HandleRequest(endpoint, ip, data, env, doCleanup) ==
  /\ hpc # "streaming"
  /\ handled < MaxRequests
  /\ \E rateInfo \in {checkRateLimit(requestStore, ip, EndpointConfig(endpoint), now)} :
     \E out \in {handler(endpoint, rateInfo, data, env)} :
       /\ requestStore' = IF out.recorded
                          THEN recordRequest(requestStore, ip, now, doCleanup)
                          ELSE requestStore
       /\ request' = [endpoint |-> endpoint, ip |-> ip,
                      provider |-> data.provider, jsonOk |-> data.jsonOk,
                      stream |-> data.stream,
                      temperature |-> data.temperature,
                      passed |-> IF out.invoked = 1 /\ endpoint # "image"
                                 THEN CallTemperature(endpoint, data)
                                 ELSE NoTemperature,
                      schemaValid |-> validateRequest(endpoint, data),
                      overQuota |-> rateInfo.isLimited,
                      limiterReached |-> out.limiterReached,
                      validated |-> out.validated,
                      streamed |-> out.streamed,
                      vendorKnown |-> data.provider \in FactoryProviders(endpoint),
                      env |-> env,
                      built |-> out.constructed, ops |-> out.invoked]
       /\ response' = out.response
       /\ constructed' = constructed + out.constructed
       /\ invoked' = invoked + out.invoked
       /\ hpc' = IF out.pending THEN "streaming" ELSE "responded"
       /\ emitter' = IF out.pending THEN "open" ELSE "none"
       /\ promise' = IF out.pending THEN "pending" ELSE "none"
  /\ handled' = handled + 1
  /\ chunks' = <<>>
  /\ settled' = NoResponse
  /\ UNCHANGED <<now, ticks, admitted, rejectedAt, served, last>>
  /\ UNCHANGED decVars
  /\ UNCHANGED funVars
  /\ UNCHANGED auxVars

\* variant: the handler awaits the promise outside its try block
SettleUncaught(how, value) ==
  IF promise = "pending"
  THEN /\ promise' = how
       /\ settled' = value
       /\ response' = IF how = "resolved" THEN value ELSE Thrown
       /\ hpc' = "responded"
  ELSE UNCHANGED <<promise, settled, response, hpc>>

\* resolve(value) / reject(value): only the first call settles the promise.
\* The handler awaits it: a resolved value is its response, a rejection is
\* caught by its catch clause, which answers 500 with a JSON body
Settle(how, value) ==
  IF promise = "pending"
  THEN /\ promise' = how
       /\ settled' = value
       /\ response' = IF how = "resolved" THEN value
                      ELSE JsonResponse(500, "internal")
       /\ hpc' = "responded"
  ELSE UNCHANGED <<promise, settled, response, hpc>>

\* chat.js handleStreamingChat: stream.on('data')
StreamData ==
  /\ emitter = "open"
  /\ Len(chunks) < MaxFrames
  /\ chunks' = Append(chunks, "content")
  /\ UNCHANGED <<handled, hpc, request, response, constructed, invoked,
                 emitter, promise, settled>>
  /\ UNCHANGED limVars
  /\ UNCHANGED decVars
  /\ UNCHANGED funVars
  /\ UNCHANGED auxVars

\* stream.on('metadata')
StreamMetadata ==
  /\ emitter = "open"
  /\ Len(chunks) < MaxFrames
  /\ chunks' = Append(chunks, "metadata")
  /\ UNCHANGED <<handled, hpc, request, response, constructed, invoked,
                 emitter, promise, settled>>
  /\ UNCHANGED limVars
  /\ UNCHANGED decVars
  /\ UNCHANGED funVars
  /\ UNCHANGED auxVars

\* stream.on('error'): an error frame with the message of the error and a
\* done frame, then reject
StreamError(message) ==
  /\ emitter = "open"
  /\ Len(chunks) < MaxFrames
  /\ chunks' = chunks \o <<"error", "done">>
  /\ Settle("rejected", [SseResponse(500, chunks') EXCEPT !.error = message])
  /\ UNCHANGED <<handled, request, constructed, invoked, emitter>>
  /\ UNCHANGED limVars
  /\ UNCHANGED decVars
  /\ UNCHANGED funVars
  /\ UNCHANGED auxVars

\* stream.on('end'): a done frame, then resolve
StreamEnd ==
  /\ emitter = "open"
  /\ chunks' = Append(chunks, "done")
  /\ emitter' = "ended"
  /\ Settle("resolved", SseResponse(200, chunks'))
  /\ UNCHANGED <<handled, request, constructed, invoked>>
  /\ UNCHANGED limVars
  /\ UNCHANGED decVars
  /\ UNCHANGED funVars
  /\ UNCHANGED auxVars

IdleDecoder ==
  /\ vendor = "none"
  /\ stream = <<>>
  /\ pos = 0
  /\ buffer = <<>>
  /\ events = <<>>
  /\ dstate = "idle"
  /\ cuts = {}
  /\ aborted = FALSE

InitHandler ==
  /\ IdleLimiter
  /\ IdleDecoder
  /\ IdleHandler
  /\ IdleFunctions

NextHandler ==
  \/ \E endpoint \in Endpoints, ip \in Clients,
        data \in RequestData \cup {Unparseable},
        env \in Environments, doCleanup \in BOOLEAN :
        HandleRequest(endpoint, ip, data, env, doCleanup)
  \/ StreamData
  \/ StreamMetadata
  \/ \E message \in StreamMessages : StreamError(message)
  \/ StreamEnd

SpecHandler == InitHandler /\ [][NextHandler]_vars

\* the handlers given well-formed requests while the vendor calls fail
NextVendorFailure ==
  \E endpoint \in Endpoints, ip \in Clients, data \in WellFormedRequests,
     env \in VendorFailures, doCleanup \in BOOLEAN :
     HandleRequest(endpoint, ip, data, env, doCleanup)

SpecVendorFailure == InitHandler /\ [][NextVendorFailure]_vars

\* the chat handler of chat.js given every request, with a provider stream
\* that emits end or error in the end
NextChat ==
  \/ \E ip \in Clients, data \in RequestData \cup {Unparseable},
        env \in Environments, doCleanup \in BOOLEAN :
        HandleRequest("chat", ip, data, env, doCleanup)
  \/ StreamData
  \/ StreamMetadata
  \/ \E message \in StreamMessages : StreamError(message)
  \/ StreamEnd

StreamCloses == StreamEnd \/ \E message \in StreamMessages : StreamError(message)

SpecChatFair == InitHandler /\ [][NextChat]_vars /\ WF_vars(StreamCloses)

\* valid chat bodies with and without a stream flag and a temperature
OptionRequests == [jsonOk : {TRUE},
                   provider : {"openai"},
                   required : {"present"},
                   streaming : BOOLEAN,
                   stream : {"omitted", "true", "false"},
                   temperature : {NoTemperature, 0, 20},
                   optionsTemperature : {NoTemperature, 10}]

\* the chat handlers given these bodies while everything else is in order
NextOptions ==
  \/ \E endpoint \in {"chat", "chat2"}, ip \in Clients, data \in OptionRequests :
        HandleRequest(endpoint, ip, data, Environment(TRUE, TRUE, TRUE, TRUE), FALSE)
  \/ StreamData
  \/ StreamMetadata
  \/ \E message \in StreamMessages : StreamError(message)
  \/ StreamEnd

SpecOptions == InitHandler /\ [][NextOptions]_vars


----------------------------------------------------------------------------
(* Message formatting: formatMessages of the four providers.  A message    *)
(* has a role, a content and the isError flag the formatters look at.  A   *)
(* content is a whole string; the text Gemini builds from two of them is   *)
(* the sequence of its pieces.                                             *)
(***************************************************************************)

MaxMessages == 3

Roles == {"system", "user", "assistant"}

\* message contents: non-empty strings, as validateMessages requires
Contents == {"X", "Y"}

Messages == [role : Roles, content : Contents, isError : BOOLEAN]

MessageLists == UNION {[1..n -> Messages] : n \in 0..MaxMessages}

\* the separator of the template `${system}\n\nUsuario: ${text}`
Usuario == "\n\nUsuario: "

\* Array.prototype.map(msg => ({ role, content }))
RoleAndContent(msgs) ==
  [i \in 1..Len(msgs) |-> [role |-> msgs[i].role, content |-> msgs[i].content]]

NotError(m) == ~m.isError

IsSystem(m) == m.role = "system"

NotErrorNorSystem(m) == ~m.isError /\ m.role # "system"

\* OpenAIProvider.formatMessages
formatMessagesOpenAI(msgs) == RoleAndContent(msgs)

\* AzureChatProvider.formatMessages
formatMessagesAzure(msgs) == RoleAndContent(SelectSeq(msgs, NotError))

\* the loop of GeminiProvider.formatMessages
GeminiContents(msgs) ==
  LET kept == SelectSeq(msgs, NotErrorNorSystem)
  IN [i \in 1..Len(kept) |->
        [role |-> IF kept[i].role = "assistant" THEN "model" ELSE kept[i].role,
         parts |-> <<[text |-> <<kept[i].content>>]>>]]

\* variant: the system message is dropped and never folded
formatMessagesGeminiNoFold(msgs) == GeminiContents(msgs)

\* GeminiProvider.formatMessages
formatMessagesGemini(msgs) ==
  LET contents == GeminiContents(msgs)
      systems == SelectSeq(msgs, IsSystem)
  IN IF systems # <<>> /\ contents # <<>> /\ contents[1].role = "user"
     THEN [contents EXCEPT ![1].parts =
             <<[text |-> <<systems[1].content, Usuario>> \o contents[1].parts[1].text]>>]
     ELSE contents

\* AnthropicProvider.formatMessages: every system message overwrites
\* systemPrompt, so the last one stays
formatMessagesAnthropic(msgs) ==
  LET live == SelectSeq(msgs, NotError)
      systems == SelectSeq(live, IsSystem)
  IN [systemPrompt |-> IF systems = <<>> THEN Undefined
                       ELSE systems[Len(systems)].content,
      conversationMessages |-> RoleAndContent(SelectSeq(msgs, NotErrorNorSystem))]

formatMessages(v, msgs) ==
  IF v = "openai" THEN formatMessagesOpenAI(msgs)
  ELSE IF v = "azure" THEN formatMessagesAzure(msgs)
  ELSE IF v = "gemini" THEN formatMessagesGemini(msgs)
  ELSE formatMessagesAnthropic(msgs)

\* provider.formatMessages(messages) inside chat()
Format(v) ==
  /\ formatter = "none"
  /\ formatter' = v
  /\ formatted' = formatMessages(v, messages)
  /\ UNCHANGED <<messages, input, validation>>
  /\ UNCHANGED limVars
  /\ UNCHANGED decVars
  /\ UNCHANGED hanVars
  /\ UNCHANGED auxVars

InitFormat ==
  /\ messages \in MessageLists
  /\ formatter = "none"
  /\ formatted = <<>>
  /\ input = <<>>
  /\ validation = <<>>
  /\ IdleAux
  /\ IdleLimiter
  /\ IdleDecoder
  /\ IdleHandler

NextFormat ==
  \/ Format("openai")
  \/ Format("azure")
  \/ Format("gemini")
  \/ Format("anthropic")

SpecFormat == InitFormat /\ [][NextFormat]_vars

----------------------------------------------------------------------------
(* Input validation: validateField, validateMessages and validateInput    *)
(* with the chat schema.  A value is a record that carries its JavaScript  *)
(* type; a string carries its length, a number its value in tenths.  An    *)
(* error string is the sequence of its pieces.                             *)
(***************************************************************************)

MaxInputMessages == 2

Absent == [type |-> "undefined"]

Str(name, length) == [type |-> "string", chars |-> name, length |-> length]

Num(tenths) == [type |-> "number", tenths |-> tenths]

Bool(b) == [type |-> "boolean", flag |-> b]

Arr(items) == [type |-> "array", items |-> items]

Obj(name) == [type |-> "object", keys |-> name]

\* VALIDATION_SCHEMAS.chat
ChatFields == <<"provider", "model", "messages", "temperature", "stream">>

ChatSchema(fieldName) ==
  IF fieldName = "provider" THEN
    [type |-> "string", required |-> TRUE, default |-> Absent,
     minLength |-> 0, maxLength |-> 0,
     enum |-> {"openai", "gemini", "anthropic", "azure"},
     message |-> <<"Provider", " debe ser uno de: openai, gemini, anthropic, azure">>]
  ELSE IF fieldName = "model" THEN
    [type |-> "string", required |-> TRUE, default |-> Absent,
     minLength |-> 1, maxLength |-> 100, enum |-> {},
     message |-> <<"Model", " es requerido y debe tener entre 1 y 100 caracteres">>]
  ELSE IF fieldName = "messages" THEN
    [type |-> "array", required |-> TRUE, default |-> Absent,
     minItems |-> 1, maxItems |-> 50, enum |-> {},
     message |-> <<"Messages", " debe ser un array con 1-50 elementos">>]
  ELSE IF fieldName = "temperature" THEN
    [type |-> "number", required |-> FALSE, default |-> Num(7),
     min |-> 0, max |-> 20, enum |-> {},
     message |-> <<"Temperature", " debe estar entre 0 y 2">>]
  ELSE
    [type |-> "boolean", required |-> FALSE, default |-> Bool(TRUE),
     enum |-> {},
     message |-> <<"Stream", " debe ser un boolean">>]

TypeWord(type) == IF type = "number" THEN "numero" ELSE type

Invalid(error) == [isValid |-> FALSE, value |-> Absent, error |-> error]

Valid(value) == [isValid |-> TRUE, value |-> value, error |-> <<>>]

validateField(value, schema, fieldName) ==
  IF value.type = "undefined" THEN
    IF schema.required THEN Invalid(<<fieldName, ": ">> \o schema.message)
    ELSE Valid(schema.default)
  ELSE IF schema.type # value.type THEN
    Invalid(<<fieldName, ": ", "debe ser un ", TypeWord(schema.type)>>)
  ELSE IF schema.type = "string" /\ schema.minLength > 0
                                 /\ value.length < schema.minLength THEN
    Invalid(<<fieldName, ": ", "debe tener al menos minLength caracteres">>)
  ELSE IF schema.type = "string" /\ schema.maxLength > 0
                                 /\ value.length > schema.maxLength THEN
    Invalid(<<fieldName, ": ", "no puede tener mas de maxLength caracteres">>)
  ELSE IF schema.type = "number" /\ value.tenths < schema.min THEN
    Invalid(<<fieldName, ": ", "debe ser mayor o igual a min">>)
  ELSE IF schema.type = "number" /\ value.tenths > schema.max THEN
    Invalid(<<fieldName, ": ", "debe ser menor o igual a max">>)
  ELSE IF schema.type = "array" /\ schema.minItems > 0
                                /\ Len(value.items) < schema.minItems THEN
    Invalid(<<fieldName, ": ", "debe tener al menos minItems elementos">>)
  ELSE IF schema.type = "array" /\ schema.maxItems > 0
                                /\ Len(value.items) > schema.maxItems THEN
    Invalid(<<fieldName, ": ", "no puede tener mas de maxItems elementos">>)
  ELSE IF schema.enum # {} /\ value.chars \notin schema.enum THEN
    Invalid(schema.message)
  ELSE Valid(value)

MaxContentLength == 10000

\* A message content is the text between its leading and trailing blanks,
\* the number of these blanks, and the length of the whole string.
\* The messages of the requests: a plain one, one whose content has blanks
\* around it, one with a role outside validRoles, one with an empty content,
\* one whose content is blanks only, one of 10,000 and one of 10,001
\* characters
PlainMessage == [role |-> "user", content |-> "hi", blanks |-> 0, length |-> 2]
PaddedMessage == [role |-> "system", content |-> "be brief", blanks |-> 2, length |-> 10]
BadRoleMessage == [role |-> "robot", content |-> "hi", blanks |-> 0, length |-> 2]
EmptyMessage == [role |-> "user", content |-> "", blanks |-> 0, length |-> 0]
BlankMessage == [role |-> "user", content |-> "", blanks |-> 3, length |-> 3]
FullMessage == [role |-> "assistant", content |-> "full", blanks |-> 0,
                length |-> MaxContentLength]
LongMessage == [role |-> "user", content |-> "long", blanks |-> 0,
                length |-> MaxContentLength + 1]

InputMessages == {PlainMessage, PaddedMessage, BadRoleMessage, EmptyMessage,
                  BlankMessage, FullMessage, LongMessage}

\* content.trim()
TrimContent(m) ==
  [role |-> m.role, content |-> m.content, blanks |-> 0,
   length |-> m.length - m.blanks]

\* validateMessages: the first bad message ends the loop
RECURSIVE validateMessagesFrom(_, _)
validateMessagesFrom(items, i) ==
  IF i > Len(items) THEN Valid(Arr(<<>>))
  ELSE IF items[i].role \notin Roles THEN
    Invalid(<<"Message ", ToString(i - 1), ": ", "role debe ser uno de: system, user, assistant">>)
  ELSE IF items[i].length = 0 THEN
    Invalid(<<"Message ", ToString(i - 1), ": ", "content es requerido y debe ser un string">>)
  ELSE IF items[i].length > MaxContentLength THEN
    Invalid(<<"Message ", ToString(i - 1), ": ", "content no puede tener mas de 10,000 caracteres">>)
  ELSE LET rest == validateMessagesFrom(items, i + 1) IN
       IF rest.isValid THEN Valid(Arr(<<TrimContent(items[i])>> \o rest.value.items))
       ELSE rest

validateMessages(value) == validateMessagesFrom(value.items, 1)

\* the loop of validateInput over the fields of the schema, from field i on
RECURSIVE ValidateFields(_, _)
ValidateFields(data, i) ==
  IF i > Len(ChatFields) THEN [data |-> <<>>, errors |-> <<>>]
  ELSE LET fieldName == ChatFields[i]
           result == validateField(data[fieldName], ChatSchema(fieldName), fieldName)
           rest == ValidateFields(data, i + 1)
       IN IF result.isValid
          THEN [data |-> <<[field |-> fieldName, value |-> result.value]>> \o rest.data,
                errors |-> rest.errors]
          ELSE [data |-> rest.data, errors |-> <<result.error>> \o rest.errors]

\* validatedData as a function of the fields it holds
AsObject(pairs) ==
  [f \in {pairs[i].field : i \in 1..Len(pairs)} |->
     (CHOOSE p \in {pairs[i] : i \in 1..Len(pairs)} : p.field = f).value]

\* variant: validation stops at the first field that fails
validateInputFailFast(data) ==
  LET fields == ValidateFields(data, 1)
      errors == IF fields.errors = <<>> THEN <<>> ELSE <<Head(fields.errors)>>
  IN [isValid |-> errors = <<>>, data |-> AsObject(fields.data), errors |-> errors]

\* validateInput(data, 'chat')
validateInput(data) ==
  LET fields == ValidateFields(data, 1)
      validatedData == AsObject(fields.data)
  IN IF "messages" \in DOMAIN validatedData
     THEN LET messageValidation == validateMessages(validatedData["messages"]) IN
          IF messageValidation.isValid
          THEN [isValid |-> fields.errors = <<>>,
                data |-> [validatedData EXCEPT !["messages"] = messageValidation.value],
                errors |-> fields.errors]
          ELSE [isValid |-> FALSE,
                data |-> validatedData,
                errors |-> Append(fields.errors, messageValidation.error)]
     ELSE [isValid |-> fields.errors = <<>>, data |-> validatedData,
           errors |-> fields.errors]

\* the request data the validator is given
ProviderValues == {Absent, Str("openai", 6), Str("gemini", 6), Str("cohere", 6), Num(1)}

ModelValues == {Absent, Str("gpt-4", 5), Str("", 0), Str("long", 101)}

MessagesValues ==
  {Absent, Obj("notAnArray")} \cup
  {Arr(items) : items \in UNION {[1..n -> InputMessages] : n \in 0..MaxInputMessages}}

TemperatureValues == {Absent, Num(0), Num(7), Num(20), Num(25), Str("hot", 3)}

StreamValues == {Absent, Bool(TRUE), Bool(FALSE), Str("yes", 3)}

ChatInputs ==
  [provider : ProviderValues, model : ModelValues, messages : MessagesValues,
   temperature : TemperatureValues, stream : StreamValues]

\* const validation = validateInput(data, 'chat')
Validate ==
  /\ validation = <<>>
  /\ validation' = validateInput(input)
  /\ UNCHANGED <<messages, formatter, formatted, input>>
  /\ UNCHANGED limVars
  /\ UNCHANGED decVars
  /\ UNCHANGED hanVars
  /\ UNCHANGED auxVars

InitValidator ==
  /\ input \in ChatInputs
  /\ validation = <<>>
  /\ messages = <<>>
  /\ formatter = "none"
  /\ formatted = <<>>
  /\ IdleAux
  /\ IdleLimiter
  /\ IdleDecoder
  /\ IdleHandler

NextValidator == Validate

SpecValidator == InitValidator /\ [][NextValidator]_vars

----------------------------------------------------------------------------
(* Cancellation: createTimeoutController of BaseProvider and of            *)
(* AzureImageProvider, and the vendor request of chat and generateImage    *)
(* that is given the signal of the controller.                             *)

Adapters == {"OpenAIProvider", "GeminiProvider", "AnthropicProvider",
             "AzureChatProvider", "AzureImageProvider"}

\* the signal parameter of a call: absent, not aborted, already aborted
SignalInputs == {"none", "active", "aborted"}

\* createTimeoutController(externalSignal): a new controller, its timeout,
\* and an abort listener on the external signal when there is one
createTimeoutController(signal) ==
  [controller |-> "live", timer |-> "armed", listening |-> signal # "none"]

\* what controller.abort() does to the vendor request that holds its signal
Cancelled(c) == IF c \in {"pending", "streaming"} THEN "cancelled" ELSE c

\* chat / generateImage up to fetch(url, {signal: controller.signal});
\* generateImage has no stream parameter
StartCall(a, streaming, signal) ==
  /\ call = "idle"
  /\ streaming => a # "AzureImageProvider"
  /\ adapter' = [class |-> a, stream |-> streaming]
  /\ externalSignal' = signal
  /\ controller' = createTimeoutController(signal).controller
  /\ timer' = createTimeoutController(signal).timer
  /\ listening' = createTimeoutController(signal).listening
  /\ call' = "pending"
  /\ UNCHANGED <<processEnv, health, inflight, running>>
  /\ UNCHANGED limVars
  /\ UNCHANGED decVars
  /\ UNCHANGED hanVars
  /\ UNCHANGED funVars

\* the caller aborts the external signal: its abort event runs the listener,
\* if one is registered (clearTimeout, controller.abort())
AbortExternal ==
  /\ externalSignal = "active"
  /\ externalSignal' = "aborted"
  /\ controller' = IF listening THEN "aborted" ELSE controller
  /\ timer' = IF listening /\ timer = "armed" THEN "cleared" ELSE timer
  /\ call' = IF listening THEN Cancelled(call) ELSE call
  /\ UNCHANGED <<adapter, listening, processEnv, health, inflight, running>>
  /\ UNCHANGED limVars
  /\ UNCHANGED decVars
  /\ UNCHANGED hanVars
  /\ UNCHANGED funVars

\* the timeout expires after timeoutMs: controller.abort()
Timeout ==
  /\ timer = "armed"
  /\ timer' = "fired"
  /\ controller' = "aborted"
  /\ call' = Cancelled(call)
  /\ UNCHANGED <<adapter, externalSignal, listening, processEnv, health,
                 inflight, running>>
  /\ UNCHANGED limVars
  /\ UNCHANGED decVars
  /\ UNCHANGED hanVars
  /\ UNCHANGED funVars

\* the vendor answers: with stream = true the body is still to be read
Respond ==
  /\ call = "pending"
  /\ call' = IF adapter.stream THEN "streaming" ELSE "done"
  /\ UNCHANGED <<adapter, externalSignal, listening, controller, timer,
                 processEnv, health, inflight, running>>
  /\ UNCHANGED limVars
  /\ UNCHANGED decVars
  /\ UNCHANGED hanVars
  /\ UNCHANGED funVars

\* the body has been read to its end
EndStream ==
  /\ call = "streaming"
  /\ call' = "done"
  /\ UNCHANGED <<adapter, externalSignal, listening, controller, timer,
                 processEnv, health, inflight, running>>
  /\ UNCHANGED limVars
  /\ UNCHANGED decVars
  /\ UNCHANGED hanVars
  /\ UNCHANGED funVars

InitCancel ==
  /\ IdleLimiter
  /\ IdleDecoder
  /\ IdleHandler
  /\ IdleFunctions

NextCancel ==
  \/ \E a \in Adapters, streaming \in BOOLEAN, signal \in SignalInputs :
        StartCall(a, streaming, signal)
  \/ AbortExternal
  \/ Timeout
  \/ Respond
  \/ EndStream

SpecCancel == InitCancel /\ [][NextCancel]_vars

----------------------------------------------------------------------------
(* Health endpoint: exports.handler of health.js.  process.env is the set  *)
(* of the variables that are set to a non-empty value.                     *)

requiredEnvVars == {"OPENAI_API_KEY", "GOOGLE_API_KEY", "ANTHROPIC_API_KEY",
                    "AZURE_OPENAI_API_KEY", "AZURE_OPENAI_ENDPOINT"}

\* DEBUG_MODE === 'true'
DebugMode == "DEBUG_MODE"

Methods == {"GET", "POST", "OPTIONS"}

NoProviders == [openai |-> FALSE, gemini |-> FALSE, anthropic |-> FALSE,
                azure |-> FALSE]

\* a response of the health handler: reported says whether its body is a
\* health report
HealthResponse(statusCode, status, reported, providers) ==
  [statusCode |-> statusCode, status |-> status, reported |-> reported,
   providers |-> providers]

NoReport == HealthResponse(0, "none", FALSE, NoProviders)

\* envStatus[envVar] === 'configured'
Configured(env, envVar) == envVar \in env

\* variant: the azure flag looks at the key only
AzureFlagKeyOnly(env) == Configured(env, "AZURE_OPENAI_API_KEY")

AzureFlag(env) ==
  /\ Configured(env, "AZURE_OPENAI_API_KEY")
  /\ Configured(env, "AZURE_OPENAI_ENDPOINT")

healthData(env) ==
  LET allConfigured == \A envVar \in requiredEnvVars : Configured(env, envVar)
  IN HealthResponse(IF allConfigured THEN 200 ELSE 206,
                    IF allConfigured THEN "healthy" ELSE "degraded",
                    TRUE,
                    [openai |-> Configured(env, "OPENAI_API_KEY"),
                     gemini |-> Configured(env, "GOOGLE_API_KEY"),
                     anthropic |-> Configured(env, "ANTHROPIC_API_KEY"),
                     azure |-> AzureFlag(env)])

\* contextOk: context.getRemainingTimeInMillis is a function; the debug
\* details call it, and the catch clause answers when it is not
healthHandler(method, env, contextOk) ==
  IF method = "OPTIONS" THEN HealthResponse(200, "none", FALSE, NoProviders)
  ELSE IF method # "GET" THEN HealthResponse(405, "none", FALSE, NoProviders)
  ELSE IF DebugMode \in env /\ ~contextOk
  THEN HealthResponse(500, "error", FALSE, NoProviders)
  ELSE healthData(env)

Health(method, contextOk) ==
  /\ health' = healthHandler(method, processEnv, contextOk)
  /\ UNCHANGED <<adapter, externalSignal, listening, controller, timer, call,
                 processEnv, inflight, running>>
  /\ UNCHANGED limVars
  /\ UNCHANGED decVars
  /\ UNCHANGED hanVars
  /\ UNCHANGED funVars

InitHealth ==
  /\ processEnv \in SUBSET (requiredEnvVars \cup {DebugMode})
  /\ health = NoReport
  /\ IdleCancellation
  /\ IdleConcurrent
  /\ messages = <<>>
  /\ formatter = "none"
  /\ formatted = <<>>
  /\ input = <<>>
  /\ validation = <<>>
  /\ IdleLimiter
  /\ IdleDecoder
  /\ IdleHandler

NextHealth == \E method \in Methods, contextOk \in BOOLEAN : Health(method, contextOk)

SpecHealth == InitHealth /\ [][NextHealth]_vars

----------------------------------------------------------------------------
(* Concurrent requests through withRateLimit.  The code of a request runs  *)
(* from one await to the next without interruption: running is the request *)
(* whose code is running, and another request takes a step only when       *)
(* running is 0.                                                           *)

MaxInflight == 3
MaxElapse == 2

\* variant: the request gives up the processor between its check and its
\* record
AfterCheckYield(r) == 0

\* withRateLimit has no await between checkRateLimit and recordRequest: the
\* request that passed the check goes on running
AfterCheck(r) == r

\* the check of a new request: const rateInfo = checkRateLimit(ip, config),
\* and the return of rateLimitResponse(rateInfo) when it is limited
BeginRequest(ip, config) ==
  /\ running = 0
  /\ Len(inflight) < MaxInflight
  /\ \E rateInfo \in {checkRateLimit(requestStore, ip, config, now)} :
       /\ inflight' = Append(inflight,
            [ip |-> ip, cfg |-> config, at |-> now,
             seen |-> FilterRecent(StoreGet(requestStore, ip), now - config.windowMs),
             pc |-> IF rateInfo.isLimited THEN "rejected" ELSE "checked"])
       /\ running' = IF rateInfo.isLimited THEN 0 ELSE AfterCheck(Len(inflight) + 1)
  /\ UNCHANGED <<adapter, externalSignal, listening, controller, timer, call,
                 processEnv, health>>
  /\ UNCHANGED limVars
  /\ UNCHANGED decVars
  /\ UNCHANGED hanVars
  /\ UNCHANGED funVars

\* recordRequest(ip), then await handler(event, context)
RecordAndAwait(r, doCleanup) ==
  /\ r \in 1..Len(inflight)
  /\ running \in {0, r}
  /\ inflight[r].pc = "checked"
  /\ requestStore' = recordRequest(requestStore, inflight[r].ip, now, doCleanup)
  /\ inflight' = [inflight EXCEPT ![r].pc = "awaiting"]
  /\ running' = 0
  /\ UNCHANGED <<now, ticks, admitted, rejectedAt, served, last>>
  /\ UNCHANGED <<adapter, externalSignal, listening, controller, timer, call,
                 processEnv, health>>
  /\ UNCHANGED decVars
  /\ UNCHANGED hanVars
  /\ UNCHANGED funVars

\* the handler answers: addRateLimitHeaders and return
Complete(r) ==
  /\ r \in 1..Len(inflight)
  /\ running = 0
  /\ inflight[r].pc = "awaiting"
  /\ inflight' = [inflight EXCEPT ![r].pc = "done"]
  /\ UNCHANGED <<adapter, externalSignal, listening, controller, timer, call,
                 processEnv, health, running>>
  /\ UNCHANGED limVars
  /\ UNCHANGED decVars
  /\ UNCHANGED hanVars
  /\ UNCHANGED funVars

\* time passes while no code is running
Elapse(step) ==
  /\ running = 0
  /\ ticks < MaxElapse
  /\ Tick(step)

InitConcurrent ==
  /\ IdleLimiter
  /\ IdleDecoder
  /\ IdleHandler
  /\ IdleFunctions

NextConcurrent ==
  \/ \E ip \in Clients, config \in Configs : BeginRequest(ip, config)
  \/ \E r \in 1..MaxInflight, doCleanup \in BOOLEAN : RecordAndAwait(r, doCleanup)
  \/ \E r \in 1..MaxInflight : Complete(r)
  \/ \E step \in TickSteps : Elapse(step)

SpecConcurrent == InitConcurrent /\ [][NextConcurrent]_vars

----------------------------------------------------------------------------
(* Properties of the rate limiter (SpecLimiter) *)

\* number of logged admissions of ip that lie inside the window of config now
AdmittedInWindow(ip, config) ==
  Cardinality({i \in 1..Len(admitted[ip]) :
                 admitted[ip][i].at > now - config.windowMs})

\* the same, counting only the requests admitted under config itself
AdmittedInWindowBy(ip, config) ==
  Cardinality({i \in 1..Len(admitted[ip]) :
                 /\ admitted[ip][i].at > now - config.windowMs
                 /\ admitted[ip][i].cfg = config.name})

JustAnswered == last.ip # "none"

\* C1: once maxRequests requests of a key were admitted under a configuration
\* inside a span shorter than its windowMs, every further request of the key
\* inside that span is rejected: an admitted request is never the
\* (maxRequests+1)-th request of its key admitted inside one window.
C1_RejectedOnceFull ==
  (JustAnswered /\ ~last.limited)
    => AdmittedInWindowBy(last.ip, last.cfg) <= last.cfg.maxRequests

\* C8: a request is rejected only while maxRequests admitted requests of its
\* key lie inside the window; once windowMs has elapsed since the oldest of
\* them the next request is admitted, rejected requests in between or not.
C8_AdmittedAfterWindow ==
  (JustAnswered /\ last.limited)
    => AdmittedInWindow(last.ip, last.cfg) >= last.cfg.maxRequests

\* the key filled its chat window, was rejected, and is admitted again at the
\* instant windowMs after the oldest of the requests that filled the window
C8_Witness ==
  /\ JustAnswered /\ ~last.limited
  /\ LET log == admitted[last.ip]
         n == last.cfg.maxRequests
     IN /\ Len(log) > n
        /\ \A i \in 1..Len(log) : log[i].cfg = last.cfg.name
        /\ log[Len(log) - n].at + last.cfg.windowMs <= now
        /\ log[Len(log) - 1].at - log[Len(log) - n].at < last.cfg.windowMs
        /\ rejectedAt[last.ip] >= log[Len(log) - 1].at
        /\ rejectedAt[last.ip] < now

\* C9: every rate-limit rejection is a 429 whose Retry-After is an integer
\* number of seconds greater than 0 (and no longer than the window) and whose
\* X-RateLimit-Remaining is 0.
C9_RejectionHeaders ==
  (JustAnswered /\ last.limited)
    => /\ last.response.statusCode = 429
       /\ last.response.RetryAfter \in 1..((last.cfg.windowMs + 999) \div 1000)
       /\ last.response.XRateLimitRemaining = 0

\* a rejection whose Retry-After was rounded up from a fraction of a second
C9_Witness ==
  /\ JustAnswered /\ last.limited
  /\ last.response.statusCode = 429
  /\ now % 1000 # 0
  /\ last.response.RetryAfter * 1000 > last.response.XRateLimitReset - now

----------------------------------------------------------------------------
(* Properties of the stream decoders (SpecDecoder) *)

Terminals(evs) == {i \in 1..Len(evs) : IsTerminal(evs[i])}

\* the complete lines among the characters delivered so far
DeliveredLines ==
  LET lines == SplitLines(SubSeq(stream, 1, pos))
  IN SubSeq(lines, 1, Len(lines) - 1)

\* the payload of a line as the SSE decoders read it
PayloadOf(line) ==
  IF StartsWithData(line) THEN Trim(SliceData(line)) ELSE Trim(line)

\* the vendor's terminal markers: [DONE], message_stop, finishReason
IsMarkerLine(v, line) ==
  \/ v # "gemini" /\ StartsWithData(line) /\ PayloadOf(line) = <<"[DONE]">>
  \/ v = "anthropic" /\ StartsWithData(line) /\ PayloadOf(line) = <<"{", "f", "}">>
  \/ v = "gemini" /\ PayloadOf(line) \in {<<"{", "f", "}">>, <<"{", "af", "}">>}

\* a well-formed line carrying text
IsContentLine(v, line) ==
  /\ v # "gemini" => StartsWithData(line)
  /\ PayloadOf(line) \in {<<"{", "a", "}">>, <<"{", "b", "}">>}

\* an Anthropic payload of type error
IsErrorLine(line) ==
  StartsWithData(line) /\ PayloadOf(line) = <<"{", "e", "}">>

\* C2: when a decoder has finished with a vendor stream, closed with or
\* without its terminal marker, the events it emitted contain exactly one
\* terminal event, and it is the last event.
C2_ExactlyOneTerminalLast ==
  dstate = "returned" => Terminals(events) = {Len(events)} /\ events # <<>>

\* C3: no event follows a terminal event and at most one terminal event is
\* emitted: a terminal event is always the last event.
C3_NothingAfterTerminal ==
  \A i \in Terminals(events) : i = Len(events)

\* the decoder emitted its terminal event although the chunks it was given
\* hold a text line after the terminal marker
C3_Witness ==
  /\ dstate = "returned"
  /\ events # <<>> /\ IsTerminal(events[Len(events)])
  /\ \E i, j \in 1..Len(DeliveredLines) :
        /\ i < j
        /\ IsMarkerLine(vendor, DeliveredLines[i])
        /\ IsContentLine(vendor, DeliveredLines[j])

\* C4: in the Anthropic decoder a data line of type error ends the stream
\* with a terminal Error event; no Content event is emitted for a later line.
C4_AnthropicErrorTerminates ==
  (/\ vendor = "anthropic"
   /\ \E i \in 1..Len(DeliveredLines) :
        /\ IsErrorLine(DeliveredLines[i])
        /\ \A k \in 1..(i - 1) : ~IsMarkerLine(vendor, DeliveredLines[k]))
    => /\ events # <<>>
       /\ events[Len(events)] = ErrorEvent

\* C5: however the vendor's characters are cut into chunks, the decoder
\* emits the events it emits when they arrive as one chunk.
C5_ChunkingIndependent ==
  dstate = "returned" => events = DecodeWhole(vendor, stream)

\* a finished run that emitted the text of the only JSON payload of its
\* stream although a chunk boundary fell inside that payload (and, for the
\* decoders of `data: ` lines, another one inside a prefix)
C5_Witness ==
  /\ dstate = "returned"
  /\ "json" \in cuts
  /\ vendor # "gemini" => "prefix" \in cuts
  /\ Cardinality({i \in 1..Len(stream) : stream[i] = "{"}) = 1
  /\ \E i \in 1..Len(events) : events[i].type = "content"

\* a payload line whose payload is not JSON: a truncated object
IsBadLine(v, line) ==
  /\ v # "gemini" => StartsWithData(line)
  /\ PayloadOf(line) = <<"{", "a">>

RECURSIVE DropBadLines(_, _)
DropBadLines(v, lines) ==
  IF lines = <<>> THEN <<>>
  ELSE IF IsBadLine(v, Head(lines)) THEN DropBadLines(v, Tail(lines))
  ELSE <<Head(lines)>> \o DropBadLines(v, Tail(lines))

\* the stream s with its complete bad lines (and their line ends) taken out
WithoutBadLines(v, s) ==
  LET lines == SplitLines(s)
      kept == DropBadLines(v, SubSeq(lines, 1, Len(lines) - 1))
  IN JoinLines(kept \o <<lines[Len(lines)]>>, <<"LF">>, FALSE)

\* C13: a payload line that is not JSON is skipped: it emits no event, does
\* not end the stream, and the decoder emits exactly the events it emits for
\* the same stream without that line.
C13_BadLineSkipped ==
  dstate = "returned" =>
     events = DecodeWhole(vendor, WithoutBadLines(vendor, stream))

\* a finished run that was given a bad line and, after it, a text line whose
\* text it emitted
C13_Witness ==
  /\ dstate = "returned"
  /\ \E i, j \in 1..Len(DeliveredLines) :
        /\ i < j
        /\ IsBadLine(vendor, DeliveredLines[i])
        /\ IsContentLine(vendor, DeliveredLines[j])
        /\ \A k \in 1..j : ~IsMarkerLine(vendor, DeliveredLines[k])
  /\ \E i \in 1..Len(events) : events[i].type = "content"
  /\ WithoutBadLines(vendor, stream) # stream

\* C12: when the vendor stream is aborted after decoding has started, the
\* event sequence of the decoder ends with a terminal Error event: it is not
\* left without a terminal event and the generator does not end by raising.
C12_AbortEndsWithError ==
  (aborted /\ pos > 0) =>
     /\ dstate # "thrown"
     /\ events # <<>>
     /\ events[Len(events)].type = "error"

----------------------------------------------------------------------------
(* Properties of the request handlers (SpecHandler) *)

Answered == hpc = "responded"

\* the last request parsed, broke the schema, and came from a client that had
\* used up its quota
InvalidAndOverQuota ==
  /\ Answered
  /\ request.jsonOk
  /\ ~request.schemaValid
  /\ request.overQuota

C7_RejectedNeverReachesAdapter ==
  [][(handled' = handled + 1
        /\ response'.kind \in {"json", "validation", "rateLimit"})
      => (constructed' = constructed /\ invoked' = invoked)]_vars

\* after requests that did reach an adapter, one is rejected for validation
\* and one for rate limiting
C7_Witness ==
  /\ Answered
  /\ response.kind \in {"validation", "rateLimit"}
  /\ response.statusCode \in {400, 429}
  /\ constructed > 0
  /\ invoked > 0

TerminalFrames(frames) ==
  {i \in 1..Len(frames) : frames[i] \in {"done", "error"}}

\* C10: the body of every streaming chat response is a sequence of frames
\* with exactly one terminal frame (done or error), which is the last one,
\* also when the provider stream reports an error after some content.
C10_OneTerminalFrameLast ==
  (Answered /\ request.streamed) =>
     /\ response.contentType = "text/event-stream"
     /\ Cardinality(TerminalFrames(response.body)) = 1
     /\ Len(response.body) \in TerminalFrames(response.body)

\* the frames the client has received: the handler hands the whole body to
\* the transport when it returns
Delivered == IF hpc = "responded" THEN response.body ELSE <<>>

\* C11: with streaming = true the chat handler forwards each adapter event to
\* the client as it arrives: while the provider stream is still open, every
\* frame made from its events so far has been delivered.
C11_ForwardedAsTheyArrive ==
  (request.streamed /\ emitter = "open" /\ promise = "pending") =>
     Delivered = chunks

\* the last request was admitted by the rate limiter and its body parsed
AdmittedAndParsed ==
  /\ Answered
  /\ ~request.overQuota
  /\ request.jsonOk

\* C14: a well-formed request for a vendor whose credentials are missing
\* from the configuration is answered 503, not 400, and starts no adapter
\* operation.
C14_MissingCredentials503 ==
  (/\ AdmittedAndParsed
   /\ request.schemaValid
   /\ request.vendorKnown
   /\ ~request.env.hasKey)
    => /\ response.statusCode = 503
       /\ request.ops = 0

----------------------------------------------------------------------------
(* Properties of message formatting (SpecFormat) *)

NotSystem(m) == m.role # "system"

IsUser(m) == m.role = "user"

\* no message of the list carries the isError flag
NoErrorFlags == \A i \in 1..Len(messages) : ~messages[i].isError

FirstIndex(msgs, Test(_)) ==
  CHOOSE i \in 1..Len(msgs) : Test(msgs[i]) /\ \A k \in 1..(i - 1) : ~Test(msgs[k])

GeminiRole(role) == IF role = "assistant" THEN "model" ELSE role

\* C16: for a list with a system message and at least one user message,
\* Gemini formatting emits no system entry, renames assistant to model, keeps
\* the other messages in order, and puts the system content in front of the
\* text of the first user message, wherever that message stands.
C16_GeminiFoldsIntoFirstUser ==
  (/\ formatter = "gemini"
   /\ NoErrorFlags
   /\ \E i \in 1..Len(messages) : IsSystem(messages[i])
   /\ \E i \in 1..Len(messages) : IsUser(messages[i]))
    => LET rest == SelectSeq(messages, NotSystem)
           u == FirstIndex(rest, IsUser)
           sys == messages[FirstIndex(messages, IsSystem)].content
       IN /\ Len(formatted) = Len(rest)
          /\ \A i \in 1..Len(rest) :
               /\ formatted[i].role = GeminiRole(rest[i].role)
               /\ i # u => formatted[i].parts[1].text = <<rest[i].content>>
          /\ LET text == formatted[u].parts[1].text
             IN /\ Len(text) >= 2
                /\ text[1] = sys
                /\ text[Len(text)] = rest[u].content

\* C17: Anthropic formatting sets the system field to the content of the
\* first system message of the list, also when there are several, and passes
\* the other messages through in order with role and content unchanged.
C17_AnthropicHoistsFirstSystem ==
  (formatter = "anthropic" /\ NoErrorFlags) =>
     /\ formatted.systemPrompt =
          (IF \E i \in 1..Len(messages) : IsSystem(messages[i])
           THEN messages[FirstIndex(messages, IsSystem)].content
           ELSE Undefined)
     /\ LET rest == SelectSeq(messages, NotSystem)
        IN /\ Len(formatted.conversationMessages) = Len(rest)
           /\ \A i \in 1..Len(rest) :
                /\ formatted.conversationMessages[i].role = rest[i].role
                /\ formatted.conversationMessages[i].content = rest[i].content

\* the list is [system X, user Y]
SystemThenUser ==
  /\ Len(messages) = 2
  /\ NoErrorFlags
  /\ messages[1].role = "system"
  /\ messages[2].role = "user"

----------------------------------------------------------------------------
(* Properties of the validator (SpecValidator) *)

Validated == validation # <<>>

\* the field a word of an error string stands for
FieldOf(word) ==
  IF word = "Provider" THEN "provider"
  ELSE IF word = "Model" THEN "model"
  ELSE IF word = "Messages" THEN "messages"
  ELSE IF word = "Temperature" THEN "temperature"
  ELSE IF word = "Stream" THEN "stream"
  ELSE word

Names(error, fieldName) == \E i \in 1..Len(error) : FieldOf(error[i]) = fieldName

TemperatureTooHigh(d) == d.temperature.type = "number" /\ d.temperature.tenths = 25

EmptyMessages(d) == d.messages.type = "array" /\ d.messages.items = <<>>

ProviderOutside(d) ==
  /\ d.provider.type = "string"
  /\ d.provider.chars \notin {"openai", "gemini", "anthropic", "azure"}

Faulty(d, fieldName) ==
  IF fieldName = "temperature" THEN TemperatureTooHigh(d)
  ELSE IF fieldName = "messages" THEN EmptyMessages(d)
  ELSE ProviderOutside(d)

FaultyFields(d) == {f \in {"temperature", "messages", "provider"} : Faulty(d, f)}

GoodMessage(m) ==
  m.role \in Roles /\ m.content # "" /\ m.length <= MaxContentLength

\* every field that has none of the three faults is acceptable
NoOtherFault(d) ==
  /\ d.model.type = "string" /\ d.model.length \in 1..100
  /\ d.stream.type \in {"undefined", "boolean"}
  /\ "provider" \notin FaultyFields(d) => d.provider.type = "string"
  /\ "temperature" \notin FaultyFields(d) =>
        \/ d.temperature.type = "undefined"
        \/ d.temperature.type = "number" /\ d.temperature.tenths \in 0..20
  /\ "messages" \notin FaultyFields(d) =>
        /\ d.messages.type = "array"
        /\ \A i \in 1..Len(d.messages.items) : GoodMessage(d.messages.items[i])

ErrorsNaming(fieldName) ==
  {i \in 1..Len(validation.errors) : Names(validation.errors[i], fieldName)}

\* C19: a chat request with temperature 2.5, with an empty messages array or
\* with a provider outside the enumeration is rejected with an error that
\* names the field; the errors of different fields differ; and a request
\* whose only faults are of these three kinds carries exactly one error for
\* each faulty field and no other error.
C19_FaultsRejectedPerField ==
  Validated =>
    /\ \A f \in FaultyFields(input) :
         /\ ~validation.isValid
         /\ ErrorsNaming(f) # {}
    /\ \A f, g \in FaultyFields(input) :
         f # g => \A i \in ErrorsNaming(f), j \in ErrorsNaming(g) :
                    validation.errors[i] # validation.errors[j]
    /\ NoOtherFault(input) =>
         /\ Len(validation.errors) = Cardinality(FaultyFields(input))
         /\ \A f \in FaultyFields(input) : Cardinality(ErrorsNaming(f)) = 1

C19_Witness ==
  /\ Validated
  /\ FaultyFields(input) = {"temperature", "messages", "provider"}
  /\ NoOtherFault(input)
  /\ Len(validation.errors) = 3

Normalized(d) ==
  /\ DOMAIN d = {"provider", "model", "messages", "temperature", "stream"}
  /\ \A i \in 1..Len(d["messages"].items) : d["messages"].items[i].blanks = 0

\* C20: a failed validation carries errors and no request data; a successful
\* one carries the fully normalized request and no error.
C20_ErrorsOrNormalizedData ==
  Validated =>
    IF validation.isValid
    THEN validation.errors = <<>> /\ Normalized(validation.data)
    ELSE validation.errors # <<>> /\ DOMAIN validation.data = {}

C20_FailedWithData ==
  /\ Validated
  /\ ~validation.isValid
  /\ validation.errors # <<>>
  /\ DOMAIN validation.data # {}

AcceptedMessages == validation.data["messages"].items

BlankOnly(m) == m.length > 0 /\ m.length = m.blanks

\* C21: every message of an accepted chat request has one of the three
\* roles and a content that, once trimmed, is non-empty and at most 10,000
\* characters long; a request with a message made of blanks only is
\* rejected.
C21_AcceptedMessagesWellFormed ==
  Validated =>
    /\ validation.isValid =>
         \A i \in 1..Len(AcceptedMessages) :
           /\ AcceptedMessages[i].role \in Roles
           /\ AcceptedMessages[i].length \in 1..MaxContentLength
    /\ (/\ input.messages.type = "array"
        /\ \E i \in 1..Len(input.messages.items) : BlankOnly(input.messages.items[i]))
         => ~validation.isValid

C21_BlankAccepted ==
  /\ Validated
  /\ validation.isValid
  /\ \E i \in 1..Len(AcceptedMessages) :
       AcceptedMessages[i].content = "" /\ AcceptedMessages[i].length = 0

----------------------------------------------------------------------------
(* Properties of the handlers when the vendor call fails or succeeds       *)
(* (SpecVendorFailure, SpecHandler)                                        *)

\* the last request reached the vendor call, which failed
VendorFailed ==
  /\ Answered
  /\ request.ops > 0
  /\ ~request.env.vendorOk

Contains(message, phrases) == \E phrase \in phrases : Includes(message, phrase)

\* C22: on the image endpoint a vendor failure is answered with the status
\* its message selects: 402 for quota or billing, else 400 for content
\* policy or safety, else 429 for rate limit, else 401 for unauthorized or
\* authentication, else 500.
C22_ImageFailureStatus ==
  (VendorFailed /\ request.endpoint = "image") =>
     response.statusCode =
       (IF Contains(request.env.vendorError, {"quota", "billing"}) THEN 402
        ELSE IF Contains(request.env.vendorError, {"content policy", "safety"}) THEN 400
        ELSE IF Contains(request.env.vendorError, {"rate limit"}) THEN 429
        ELSE IF Contains(request.env.vendorError, {"unauthorized", "authentication"}) THEN 401
        ELSE 500)

C22_ImageFailureThrows ==
  /\ VendorFailed
  /\ request.endpoint = "image"
  /\ Contains(request.env.vendorError, {"quota", "billing"})
  /\ response.kind = "thrown"

\* C23: on the chat endpoints a vendor failure is answered 402 when it is
\* about billing or quota, 401 when it is an authentication failure, and
\* 500 otherwise.
C23_ChatFailureStatus ==
  (VendorFailed /\ request.endpoint \in {"chat", "chat2"}) =>
     response.statusCode =
       (IF Contains(request.env.vendorError, {"quota", "billing"}) THEN 402
        ELSE IF Contains(request.env.vendorError, {"unauthorized", "authentication"}) THEN 401
        ELSE 500)

C23_QuotaAnswered500 ==
  /\ VendorFailed
  /\ request.endpoint = "chat"
  /\ ~request.streamed
  /\ Contains(request.env.vendorError, {"quota", "billing"})
  /\ response.statusCode = 500

\* C24: when the vendor call fails, the error text of the response (the
\* error field of the JSON body or of the error frame) is the message of
\* the vendor's error, on the chat endpoints in both modes and on the image
\* endpoint.
C24_VendorMessageVerbatim ==
  VendorFailed => response.error = request.env.vendorError

C24_MessageReplaced ==
  /\ VendorFailed
  /\ request.endpoint = "chat"
  /\ request.streamed
  /\ response.error = "Error interno del servidor"
  /\ response.error # request.env.vendorError

RateLimitHeaders == {"XRateLimitLimit", "XRateLimitRemaining", "XRateLimitReset"}

\* C25: every response of the chat and image handlers carries the headers
\* X-RateLimit-Limit, X-RateLimit-Remaining and X-RateLimit-Reset, and
\* every rejection by the rate limiter carries Retry-After as well.
C25_RateLimitHeadersAlways ==
  (Answered /\ response.kind # "thrown") =>
     /\ RateLimitHeaders \subseteq response.headers
     /\ request.overQuota => "RetryAfter" \in response.headers

C25_AdmittedWithoutHeaders ==
  /\ Answered
  /\ ~request.overQuota
  /\ response.statusCode = 200
  /\ response.headers = {}

\* the last request was a valid chat request without streaming whose
\* vendor call succeeded
ChatSucceeded ==
  /\ Answered
  /\ request.endpoint \in {"chat", "chat2"}
  /\ request.schemaValid
  /\ ~request.streamed
  /\ request.ops > 0
  /\ request.env.vendorOk

\* C27: a valid chat request without streaming whose vendor call succeeds
\* with the text c is answered 200 with a JSON body whose success is true,
\* whose provider is the vendor identifier of the request and whose
\* response is c.
C27_ChatSuccessBody ==
  ChatSucceeded =>
     /\ response.statusCode = 200
     /\ response.contentType = "application/json"
     /\ response.success = "true"
     /\ response.provider = request.provider
     /\ response.text = request.env.reply

C27_ProviderMissing ==
  /\ ChatSucceeded
  /\ response.statusCode = 200
  /\ response.text = "4"
  /\ response.provider = Undefined

----------------------------------------------------------------------------
(* Properties of cancellation (SpecCancel) *)

\* C26: once the external signal given to an adapter call is aborted -
\* before the call, while the vendor request is pending, or during
\* streaming - the signal of the controller handed to the vendor request is
\* aborted; and the expiry of the timeout aborts that controller.
C26_AbortPropagates ==
  /\ (call # "idle" /\ externalSignal = "aborted") => controller = "aborted"
  /\ timer = "fired" => controller = "aborted"

C26_AbortedBeforeCallIgnored ==
  /\ externalSignal = "aborted"
  /\ listening
  /\ controller = "live"
  /\ call = "done"

----------------------------------------------------------------------------
(* Properties of the health endpoint (SpecHealth) *)

AllFlags(providers) ==
  providers.openai /\ providers.gemini /\ providers.anthropic /\ providers.azure

\* C28: a health report says healthy exactly when every provider flag in it
\* is true and degraded otherwise; its azure flag is true only when both the
\* key and the endpoint of Azure are configured; and producing it starts no
\* adapter operation and changes nothing of the state of the handlers.
C28_HealthReport ==
  health.reported =>
     /\ health.status = (IF AllFlags(health.providers) THEN "healthy" ELSE "degraded")
     /\ health.providers.azure =>
          {"AZURE_OPENAI_API_KEY", "AZURE_OPENAI_ENDPOINT"} \subseteq processEnv
     /\ constructed = 0 /\ invoked = 0 /\ call = "idle"
     /\ requestStore = <<>> /\ handled = 0

\* a report while only the key of Azure is missing its endpoint
C28_Witness ==
  /\ health.reported
  /\ health.status = "degraded"
  /\ processEnv = requiredEnvVars \ {"AZURE_OPENAI_ENDPOINT"}
  /\ ~health.providers.azure
  /\ health.providers.openai /\ health.providers.gemini /\ health.providers.anthropic

----------------------------------------------------------------------------
(* Properties of concurrent requests (SpecConcurrent) *)

Passed(r) == inflight[r].pc \in {"checked", "awaiting", "done"}

\* r passed its check as the last request its window allows
LastAllowed(r) == Passed(r) /\ Len(inflight[r].seen) = inflight[r].cfg.maxRequests - 1

SameWindow(r1, r2) ==
  /\ inflight[r1].ip = inflight[r2].ip
  /\ inflight[r1].cfg = inflight[r2].cfg
  /\ inflight[r1].at - inflight[r2].at < inflight[r1].cfg.windowMs
  /\ inflight[r2].at - inflight[r1].at < inflight[r1].cfg.windowMs

\* C29: whatever the interleaving of the requests, no step of another
\* request falls between the check and the record of a request, and two
\* requests of a client are never both admitted as the last allowed request
\* of a window on the strength of the same recorded requests.
C29_CheckAndRecordAtomic ==
  /\ \A r \in 1..Len(inflight) : inflight[r].pc = "checked" => running = r
  /\ \A r1, r2 \in 1..Len(inflight) :
       (r1 # r2 /\ LastAllowed(r1) /\ LastAllowed(r2) /\ SameWindow(r1, r2))
         => inflight[r1].seen # inflight[r2].seen

\* while the request admitted as the last one of the window is still being
\* handled, another request of the client arrives at the same instant and
\* is rejected
C29_Witness ==
  \E r1, r2 \in 1..Len(inflight) :
    /\ r1 < r2
    /\ LastAllowed(r1)
    /\ inflight[r1].pc = "awaiting"
    /\ SameWindow(r1, r2)
    /\ inflight[r1].at = inflight[r2].at
    /\ inflight[r2].pc = "rejected"

----------------------------------------------------------------------------
(* Order of the Content events (SpecDecoder) *)

\* the text of a well-formed payload line, "" when it has none
TextOf(v, line) ==
  IF v # "gemini" /\ ~StartsWithData(line) THEN ""
  ELSE IF PayloadOf(line) \in {<<"{", "a", "}">>, <<"{", "b", "}">>} THEN PayloadOf(line)[2]
  ELSE IF v = "gemini" /\ PayloadOf(line) = <<"{", "af", "}">> THEN "a"
  ELSE ""

\* the non-empty texts of the lines, in their order, up to the terminal
\* marker; a marker that carries text itself (Gemini) counts with its text
RECURSIVE TextsUpToMarker(_, _)
TextsUpToMarker(v, lines) ==
  IF lines = <<>> THEN <<>>
  ELSE LET own == IF TextOf(v, Head(lines)) # "" THEN <<TextOf(v, Head(lines))>> ELSE <<>>
       IN IF IsMarkerLine(v, Head(lines)) THEN own
          ELSE own \o TextsUpToMarker(v, Tail(lines))

\* the deltas of the Content events among evs, in their order
RECURSIVE Deltas(_)
Deltas(evs) ==
  IF evs = <<>> THEN <<>>
  ELSE (IF Head(evs).type = "content" THEN <<Head(evs).delta>> ELSE <<>>)
         \o Deltas(Tail(evs))

\* C30: at every moment the deltas of the Content events a decoder has
\* emitted are, in the same order and one for one, the non-empty texts of
\* the complete well-formed payload lines it has received up to the terminal
\* marker: none is merged, duplicated, dropped, reordered or held back.
C30_ContentInVendorOrder ==
  Deltas(events) = TextsUpToMarker(vendor, DeliveredLines)

\* a decoder of `data: ` lines that was given two lines with different texts
\* and, at the end of the stream, has emitted both in the order of the lines
C30_Witness ==
  /\ dstate = "returned"
  /\ vendor # "gemini"
  /\ Len(Deltas(events)) = 2
  /\ Deltas(events)[1] # Deltas(events)[2]
  /\ Len(DeliveredLines) = 2

----------------------------------------------------------------------------
(* Further properties of the rate limiter (SpecLimiter) *)

\* C31: the accounting is per endpoint: a request is rejected under a
\* configuration only when the requests of its key admitted under that same
\* configuration fill the window; requests admitted on the other endpoint do
\* not count.
C31_CountedPerEndpoint ==
  (JustAnswered /\ last.limited)
    => AdmittedInWindowBy(last.ip, last.cfg) >= last.cfg.maxRequests

\* an image request is rejected although no image request of the key was
\* admitted: the chat requests of the key filled the image limit
C31_RejectedByOtherEndpoint ==
  /\ JustAnswered /\ last.limited
  /\ last.cfg = ImageConfig
  /\ AdmittedInWindowBy(last.ip, ImageConfig) = 0

----------------------------------------------------------------------------
(* Properties of the chat handlers' defaults (SpecOptions) *)

\* the last invocation was a valid chat request that was admitted and whose
\* vendor call was made, and the handler has answered it
ChatAnswered ==
  /\ hpc = "responded"
  /\ request.endpoint \in {"chat", "chat2"}
  /\ request.schemaValid /\ ~request.overQuota
  /\ request.ops = 1

\* C32: a valid chat request without stream flag is handled as a streaming
\* request and answered with Content-Type text/event-stream; with the flag
\* false it is answered with one JSON body.
C32_StreamDefaultsToTrue ==
  ChatAnswered =>
    /\ request.stream = "omitted" => response.contentType = "text/event-stream"
    /\ request.stream = "false" => response.contentType = "application/json"

\* a body without stream flag (and without streaming: true) answered with
\* one JSON body
C32_OmittedAnsweredJson ==
  /\ ChatAnswered
  /\ request.stream = "omitted"
  /\ ~request.streamed
  /\ response.contentType = "application/json"
  /\ response.statusCode = 200

\* C33: the temperature of a valid chat request, 0 and 2 included, is the
\* temperature of the vendor call; the default 0.7 is passed only when the
\* request has no temperature.
C33_TemperaturePassedOn ==
  ChatAnswered =>
    /\ request.temperature # NoTemperature => request.passed = request.temperature
    /\ request.passed = DefaultTemperature => request.temperature = NoTemperature

\* a request with temperature 0 whose vendor call was made with 0.7
C33_ZeroReplacedByDefault ==
  /\ ChatAnswered
  /\ request.temperature = 0
  /\ request.passed = DefaultTemperature

----------------------------------------------------------------------------
(* Frame properties of the rate limiter (SpecLimiter) *)

\* what a check reports of the quota
Verdict(rateInfo) ==
  <<rateInfo.isLimited, rateInfo.current, rateInfo.remaining>>

\* C34: the cleanup of the table is transparent: when a request is admitted,
\* with or without the cleanup running, no key of the table maps to an empty
\* list afterwards, and for every key and every configuration the next check
\* reports what it reports after the same request recorded without cleanup.
C34_CleanupTransparent ==
  [][(last'.ip # "none" /\ ~last'.limited) =>
       /\ \A k \in DOMAIN requestStore' : requestStore'[k] # <<>>
       /\ \A ip \in IPs, config \in Configs :
            Verdict(checkRateLimit(requestStore', ip, config, now'))
              = Verdict(checkRateLimit(
                          recordRequest(requestStore, last'.ip, now, FALSE),
                          ip, config, now'))]_vars

\* C35: a rejected request leaves the table as it was - only admitted
\* requests are recorded - so the moment a rejection announces for the next
\* admission is set by an admitted request still inside the window, however
\* often the client retried.
C35_RejectionLeavesTable ==
  [][(last'.ip # "none" /\ last'.limited) =>
       /\ requestStore' = requestStore
       /\ \E i \in 1..Len(admitted'[last'.ip]) :
            /\ admitted'[last'.ip][i].at > now' - last'.cfg.windowMs
            /\ admitted'[last'.ip][i].at + last'.cfg.windowMs
                 = last'.response.XRateLimitReset]_vars

\* a key that was rejected less than a window ago is admitted, and the
\* table holds the instants of its admitted requests and nothing else
C35_Witness ==
  /\ JustAnswered /\ ~last.limited
  /\ rejectedAt[last.ip] # Never
  /\ rejectedAt[last.ip] < now
  /\ rejectedAt[last.ip] >= now - last.cfg.windowMs
  /\ StoreGet(requestStore, last.ip)
       = [i \in 1..Len(admitted[last.ip]) |-> admitted[last.ip][i].at]

\* C36: in every result of checkRateLimit, isLimited holds exactly when
\* remaining is 0, current + remaining = limit whenever current <= limit,
\* and the X-RateLimit-Remaining sent with an admitted request (remaining - 1)
\* is not negative.
C36_RemainingConsistent ==
  /\ \A ip \in IPs, config \in Configs :
       LET rateInfo == checkRateLimit(requestStore, ip, config, now) IN
       /\ rateInfo.limit >= 1
       /\ rateInfo.isLimited <=> rateInfo.remaining = 0
       /\ rateInfo.current <= rateInfo.limit
            => rateInfo.current + rateInfo.remaining = rateInfo.limit
  /\ (JustAnswered /\ ~last.limited) => last.response.XRateLimitRemaining >= 0

\* the request admitted last took the last slot of its window (it was sent
\* remaining 0), and under a configuration the key now has more requests
\* inside the window than the limit
C36_Witness ==
  /\ JustAnswered /\ ~last.limited
  /\ last.response.XRateLimitRemaining = 0
  /\ \E config \in Configs :
       checkRateLimit(requestStore, last.ip, config, now).current > config.maxRequests

\* C37: once a request was answered, every result of checkRateLimit, for
\* every key - one with no request inside the window included - has a
\* finite resetTime later than now and a finite retryAfter, and the
\* X-RateLimit-Reset of the response names a real instant.
C37_ResetTimeFinite ==
  JustAnswered =>
    /\ \A ip \in IPs, config \in Configs :
         LET rateInfo == checkRateLimit(requestStore, ip, config, now) IN
         /\ rateInfo.resetTime # Infinity
         /\ rateInfo.resetTime > now
         /\ rateInfo.retryAfter # Infinity
    /\ last.response.XRateLimitReset # Infinity

\* the first request of a key is admitted and answered with an
\* X-RateLimit-Reset that is no instant
C37_FirstRequestResetInfinite ==
  /\ JustAnswered /\ ~last.limited
  /\ Len(StoreGet(requestStore, last.ip)) = 1
  /\ last.response.XRateLimitReset = Infinity

----------------------------------------------------------------------------
(* The held-back rest of the buffer (SpecDecoder) *)

\* the characters of s after its last newline
HeldBack(s) == SplitLines(s)[Len(SplitLines(s))]

\* s up to and including its last newline
UpToLastNewline(s) == SubSeq(s, 1, Len(s) - Len(HeldBack(s)))

\* C38: when the vendor stream ends, what the buffer still holds - a last
\* line without newline - is discarded and yields no event: at every moment
\* the events are those of the newline-terminated lines delivered so far,
\* and a finished run has emitted what it emits for the stream cut after
\* its last newline.
C38_HeldBackRestDiscarded ==
  /\ dstate \in {"reading", "thrown"}
       => events = ProcessLines(vendor, DeliveredLines).events
  /\ dstate = "returned"
       => events = DecodeWhole(vendor, UpToLastNewline(stream))

\* the stream ended while the buffer held a whole payload with text but
\* without newline, and no Content event was emitted for it
C38_Witness ==
  /\ dstate = "returned"
  /\ pos = Len(stream)
  /\ buffer = HeldBack(stream)
  /\ IsContentLine(vendor, buffer)
  /\ Len(DeliveredLines) >= 1
  /\ \A i \in 1..Len(DeliveredLines) : ~IsMarkerLine(vendor, DeliveredLines[i])
  /\ Deltas(events) = TextsUpToMarker(vendor, DeliveredLines)

----------------------------------------------------------------------------
(* Termination of the chat handler (SpecChatFair) *)

====
